---- MODULE Spec2Model ----
(***************************************************************************)
(* Wave Function Collapse solver of nd-wfc: wave, constrainer, propagation *)
(* queue, scoped arena, and the Run / RunLoop / Propagate / Branch engine. *)
(*                                                                         *)
(* A bit domain (an unsigned integer mask) is written as the set of its    *)
(* set bit positions inside the storage width: popcount is Cardinality,    *)
(* countr_zero the least element, & | ~ are \cap \cup and the complement   *)
(* inside 0..MaskBits-1.                                                   *)
(***************************************************************************)
EXTENDS Integers, Sequences, FiniteSets, TLC

(***************************************************************************)
(* Bounds of the model.                                                    *)
(***************************************************************************)
MaxWidth == 2
MaxHeight == 2
MaxCells == 4
MaxVars == 2
MaxSeed == 1
MaxPreassigned == 2
IterSlack == 1
MaxTermCells == 2
MaxPick == 4
MatrixWidth == 3
MaxErased == 3
ErasePoolStride == 9

(***************************************************************************)
(* Program constants.                                                      *)
(***************************************************************************)
MaxIterations == 16384
MaskBits == 8
WideMaskBits == 16
BoardSide == 9
BoxSide == 3
SubByteBits == 4
IdStart == 1
LcgMulHi == 16838
LcgMulLo == 20077
LcgInc == 12345
DefaultSeedHi == 4660
DefaultSeedLo == 22136
Half == 65536
DefaultPoolSize == 1048576
ArenaAlign == 8

(***************************************************************************)
(* State of one solver: its configuration and what Run works on.          *)
(***************************************************************************)
VARIABLES cfg, world, waves, frames, queue, arena, selector, iterations,
          pc, calls, retval, build, fired, last, picked, counts, blocks

vars == <<cfg, world, waves, frames, queue, arena, selector, iterations,
          pc, calls, retval, build, fired, last, picked, counts, blocks>>

Min(S) == CHOOSE x \in S : \A y \in S : x <= y
Max2(a, b) == IF a >= b THEN a ELSE b
Clamp(x, lo, hi) == IF x < lo THEN lo ELSE IF x > hi THEN hi ELSE x

(***************************************************************************)
(* Variable-id map: VariableIDRange<VarT, IdStart, IdStart + V>.           *)
(***************************************************************************)
GetValue(index) == IdStart + index
GetIndex(value) == value - IdStart

(***************************************************************************)
(* Bit domain (BitContainer storage).                                      *)
(***************************************************************************)
\* the width of the mask type: uint8_t up to 8 values, uint16_t above
StorageBits == IF cfg.V <= MaskBits THEN MaskBits ELSE WideMaskBits
AllBits == 0 .. (StorageBits - 1)
IsSubByte(V) == V <= SubByteBits
ElemMask(V) == 0 .. (V - 1)
\* what a write through operator[] leaves in the slot
StoreElem(V, val) == IF IsSubByte(V) THEN val \cap ElemMask(V) ELSE val \cap AllBits
\* (1 << index), ~(1 << index) converted to the element type
Bit(index) == {index} \cap AllBits
NotMask(mask) == AllBits \ mask
GetMask(indices) == UNION {Bit(i) : i \in indices}
Popcount(mask) == Cardinality(mask)
CountrZero(mask) == IF mask = {} THEN StorageBits ELSE Min(mask)

(***************************************************************************)
(* Wave.                                                                   *)
(***************************************************************************)
NewWave(N, V) == [i \in 0 .. (N - 1) |-> StoreElem(V, 0 .. (V - 1))]
WaveCollapse(V, w, index, mask) == [w EXCEPT ![index] = StoreElem(V, @ \cap mask)]
WaveEnable(V, w, index, mask) == [w EXCEPT ![index] = StoreElem(V, @ \cup mask)]
Entropy(w, index) == Popcount(w[index])
IsCollapsed(w, index) == Entropy(w, index) = 1
IsContradicted(w, index) == w[index] = {}
IsFullyCollapsed(w) == \A i \in DOMAIN w : Popcount(w[i]) = 1
\* variant: only the first cell is looked at
HasContradiction_FirstCellOnly(w) == w[0] = {}
HasContradiction(w) == \E i \in DOMAIN w : w[i] = {}
GetVariableID(w, index) == CountrZero(w[index])

(***************************************************************************)
(* Linear-congruential selector on a 32-bit state kept as two 16-bit       *)
(* halves <<hi, lo>>.                                                      *)
(***************************************************************************)
SeedOf(n) == <<n \div Half, n % Half>>
LcgNext(s) ==
    LET p0 == s[2] * LcgMulLo + LcgInc
        lo == p0 % Half
        hi == ((p0 \div Half) + ((s[2] * LcgMulHi) % Half) + ((s[1] * LcgMulLo) % Half)) % Half
    IN <<hi, lo>>
SeedMod(s, max) == (((s[1] % max) * (Half % max)) + (s[2] % max)) % max
\* rng(max): advances m_seed, returns m_seed % max
Rng(s, max) == [seed |-> LcgNext(s), pick |-> SeedMod(LcgNext(s), max)]

(***************************************************************************)
(* Scoped arena (WFCStackAllocator).                                       *)
(***************************************************************************)
\* alignUp that returns its argument
AlignUp_Identity(value) == value
AlignUp(value) == ((value + ArenaAlign - 1) \div ArenaAlign) * ArenaAlign
NewArena(initialCapacity) ==
    [pools |-> <<[size |-> 0, used |-> 0], [size |-> initialCapacity, used |-> 0]>>,
     cur |-> 2]
ArenaCapacity(a) == a.pools[a.cur].size - a.pools[a.cur].used
\* first pool index >= from with room for size bytes, 0 when none
FirstFit(a, from, size) ==
    LET fits == {i \in from .. Len(a.pools) : a.pools[i].size - a.pools[i].used >= size}
    IN IF fits = {} THEN 0 ELSE Min(fits)
\* allocate that hands out the block without moving the current pool index
Allocate_KeepsCurrent(a, rawSize) ==
    LET size == AlignUp(rawSize)
        hit == FirstFit(a, a.cur, size)
        grown == Append(a.pools, [size |-> Max2(a.pools[Len(a.pools)].size * 2, size * 2), used |-> 0])
    IN IF hit # 0
       THEN [pools |-> [a.pools EXCEPT ![hit].used = @ + size], cur |-> a.cur]
       ELSE [pools |-> [grown EXCEPT ![Len(grown)].used = size], cur |-> a.cur]
\* allocate whose new pool only doubles the last pool
Allocate_DoublesOnly(a, rawSize) ==
    LET size == AlignUp(rawSize)
        hit == FirstFit(a, a.cur, size)
        grown == Append(a.pools, [size |-> a.pools[Len(a.pools)].size * 2, used |-> 0])
    IN IF hit # 0
       THEN [pools |-> [a.pools EXCEPT ![hit].used = @ + size], cur |-> hit]
       ELSE [pools |-> [grown EXCEPT ![Len(grown)].used = size], cur |-> Len(grown)]
Allocate(a, rawSize) ==
    LET size == AlignUp(rawSize)
        hit == FirstFit(a, a.cur, size)
        grown == Append(a.pools, [size |-> Max2(a.pools[Len(a.pools)].size * 2, size * 2), used |-> 0])
    IN IF hit # 0
       THEN [pools |-> [a.pools EXCEPT ![hit].used = @ + size], cur |-> hit]
       ELSE [pools |-> [grown EXCEPT ![Len(grown)].used = size], cur |-> Len(grown)]
CreateFrame(a) == [poolIndex |-> a.cur, poolUsed |-> a.pools[a.cur].used]
\* the guard destructor without the loop that zeroes the later pools
DestroyFrame_KeepsLaterPools(a, f) ==
    [pools |-> [a.pools EXCEPT ![f.poolIndex].used = f.poolUsed],
     cur |-> f.poolIndex]
DestroyFrame(a, f) ==
    [pools |-> [i \in 1 .. Len(a.pools) |->
                  IF i > f.poolIndex THEN [a.pools[i] EXCEPT !.used = 0]
                  ELSE IF i = f.poolIndex THEN [a.pools[i] EXCEPT !.used = f.poolUsed]
                  ELSE a.pools[i]],
     cur |-> f.poolIndex]

(***************************************************************************)
(* Propagation queue (WFCQueue): container, m_front, m_back.               *)
(***************************************************************************)
NewQueue(N) == [container |-> [i \in 0 .. (N - 1) |-> 0], front |-> 0, back |-> 0]
QSize(q) == Cardinality(DOMAIN q.container)
QEmpty(q) == q.front = q.back
QFull(q) == q.back = QSize(q)
QHas(q, value) == \E i \in 0 .. (q.back - 1) : i \in DOMAIN q.container /\ q.container[i] = value
QPush(q, value) == [q EXCEPT !.container[q.back] = value, !.back = @ + 1]
QPop(q) == [q EXCEPT !.front = @ + 1]
QFrontValue(q) == q.container[q.front]
CreateBranchPoint(q) == [front |-> q.front, back |-> q.back]
\* variant: the checkpoint's destructor leaves the queue as it finds it
RestoreBranchPoint_Skipped(q, bp) == q
\* variant: the checkpoint puts back the front index only
RestoreBranchPoint_FrontOnly(q, bp) == [q EXCEPT !.front = bp.front]
RestoreBranchPoint(q, bp) == [q EXCEPT !.front = bp.front, !.back = bp.back]

(***************************************************************************)
(* World topology: Array2D<T, Width, Height> (not looping).                *)
(***************************************************************************)
GridSize(W, H) == W * H
GetId(W, x, y) == y * W + x
GetCoordX(W, id) == id % W
GetCoordY(W, id) == id \div W
GetCoordOffset(W, H, x, y, dx, dy) ==
    GetId(W, Clamp(x + dx, 0, W - 1), Clamp(y + dy, 0, H - 1))

(***************************************************************************)
(* Rule tables.  A rule body is a sequence of statements                   *)
(* [kind, target, vals]; the rule of value index k is the body with "same" *)
(* read as {k}, "others" as every other index and "all" as every index.    *)
(* target "right" is getCoordOffset(x, y, 1, 0) (clamped at the edge, as   *)
(* the dungeon demo addresses neighbours), target "all" the four           *)
(* neighbours guarded by the bounds tests of the README rules.             *)
(***************************************************************************)
Op(kind, target, vals) == [kind |-> kind, target |-> target, vals |-> vals]
NoRule == <<>>
EOBodies ==
    {NoRule} \cup
    {<<Op(kv[1], t, kv[2])>> :
        kv \in {<<"Only", "same">>, <<"Exclude", "same">>, <<"Exclude", "all">>},
        t \in {"right", "all"}}
IncludeBodies ==
    {<<Op("Exclude", "right", "all"), Op("Include", "right", "same")>>,
     <<Op("Exclude", "right", "all"), Op("Include", "right", "all"), Op("Only", "right", "same")>>,
     <<Op("Include", "all", "others"), Op("Exclude", "right", "same")>>,
     <<Op("Exclude", "right", "all"), Op("Include", "right", "all")>>,
     <<Op("Include", "right", "all")>>}
\* the rule of the README's basic example: every neighbour holds another value
BasicExampleBody == <<Op("Only", "all", "others")>>
\* a table is <<body of value index 0, body of every other value index>>
RuleTables ==
    (EOBodies \X EOBodies) \cup
    {<<BasicExampleBody, BasicExampleBody>>} \cup
    {<<b, b>> : b \in IncludeBodies} \cup
    {<<b, NoRule>> : b \in IncludeBodies} \cup
    {<<<<Op("Exclude", "right", "all")>>, b>> : b \in IncludeBodies}
RuleOf(table, k) == IF k = 0 THEN table[1] ELSE table[2]
UsesInclude(table) ==
    \E b \in {table[1], table[2]} : \E i \in DOMAIN b : b[i].kind = "Include"
ValIndices(V, vals, k) ==
    IF vals = "same" THEN {k}
    ELSE IF vals = "others" THEN (0 .. (V - 1)) \ {k}
    ELSE 0 .. (V - 1)
\* a table is usable with V values when every statement names at least one value
TableFits(table, V) ==
    /\ \A k \in 0 .. (V - 1) : \A i \in DOMAIN RuleOf(table, k) :
          ValIndices(V, RuleOf(table, k)[i].vals, k) # {}
    /\ (V = 1 => table[2] = NoRule)
\* variant: every statement reaches the right neighbour only
TargetCells_RightOnly(W, H, target, cell) ==
    <<GetCoordOffset(W, H, GetCoordX(W, cell), GetCoordY(W, cell), 1, 0)>>
TargetCells(W, H, target, cell) ==
    LET x == GetCoordX(W, cell)
        y == GetCoordY(W, cell)
    IN IF target = "right"
       THEN <<GetCoordOffset(W, H, x, y, 1, 0)>>
       ELSE (IF y > 0 THEN <<GetId(W, x, y - 1)>> ELSE <<>>) \o
            (IF y < H - 1 THEN <<GetId(W, x, y + 1)>> ELSE <<>>) \o
            (IF x > 0 THEN <<GetId(W, x - 1, y)>> ELSE <<>>) \o
            (IF x < W - 1 THEN <<GetId(W, x + 1, y)>> ELSE <<>>)
\* variant: Exclude hands the mask on without complementing it
OpMask_NoComplement(V, op, k) == GetMask(ValIndices(V, op.vals, k))
\* the mask a constrainer operation hands to ApplyMask / Enable
OpMask(V, op, k) ==
    IF op.kind = "Exclude" THEN NotMask(GetMask(ValIndices(V, op.vals, k)))
    ELSE GetMask(ValIndices(V, op.vals, k))
RECURSIVE CallsOf(_, _, _, _, _, _)
\* the constrainer calls the rule of value index k makes at cell, in order
CallsOf(W, H, V, body, cell, k) ==
    IF body = <<>> THEN <<>>
    ELSE LET op == Head(body)
             tc == TargetCells(W, H, op.target, cell)
         IN [i \in 1 .. Len(tc) |->
                [kind |-> op.kind, cell |-> tc[i], mask |-> OpMask(V, op, k),
                 indices |-> ValIndices(V, op.vals, k)]]
            \o CallsOf(W, H, V, Tail(body), cell, k)

(***************************************************************************)
(* Adjacency-matrix rule tables: m_data holds, per direction and per value *)
(* index, the mask of the value indices allowed in the neighbour; each     *)
(* direction is a neighbour function from cell ids to cell ids.            *)
(***************************************************************************)
\* the matrix runs are over the two values L and R
MatrixVars == Cardinality({"L", "R"})
\* a solver built with per-value rule functions has no matrix
NoMatrix == [dirs |-> <<>>, data |-> <<>>]
\* the neighbour functions of a direction list: the right or left neighbour
\* with the edge clamped (getCoordOffset), reflected or wrapped
DirectionLists ==
    {<<"clampedRight">>, <<"reflectedRight">>, <<"wrappedRight">>,
     <<"clampedRight", "clampedLeft">>}
\* AdjacencyDef::GetNeighbor(adjacencyIndex, world, cellId)
GetNeighbor(W, H, dir, cellId) ==
    LET x == GetCoordX(W, cellId)
        y == GetCoordY(W, cellId)
    IN IF dir = "clampedRight" THEN GetCoordOffset(W, H, x, y, 1, 0)
       ELSE IF dir = "clampedLeft" THEN GetCoordOffset(W, H, x, y, 0 - 1, 0)
       ELSE IF dir = "wrappedRight" THEN GetId(W, (x + 1) % W, y)
       ELSE IF x < W - 1 THEN GetId(W, x + 1, y)
       ELSE GetId(W, Max2(x - 1, 0), y)
\* variant: the mask of value index 0 is returned for every value index
MatrixGetMask_IgnoresVar(data, V, adjacency, varIndex) == data[adjacency * V + 1]
\* AdjacencyMatrix::GetMask(adjacency, varIndex), adjacency counted from 0
MatrixGetMask(data, V, adjacency, varIndex) == data[adjacency * V + varIndex + 1]
\* every content of m_data for D directions and V values
MatrixData(D, V) == [1 .. (D * V) -> SUBSET (0 .. (V - 1))]
\* the calls made for a popped cell of value index k: for each direction the
\* neighbour's domain is intersected with the mask of (direction, k)
MatrixCalls(W, H, V, m, cell, k) ==
    [d \in 1 .. Len(m.dirs) |->
        [kind |-> "Only", cell |-> GetNeighbor(W, H, m.dirs[d], cell),
         mask |-> MatrixGetMask(m.data, V, d - 1, k),
         indices |-> MatrixGetMask(m.data, V, d - 1, k)]]
(***************************************************************************)
(* The Sudoku solver's rule (SudokuSolverBuilder::ConstrainAll): the value *)
(* of the popped cell is excluded from its row, its column and its box.    *)
(***************************************************************************)
SudokuExclude(k, cellId) ==
    [kind |-> "Exclude", cell |-> cellId, mask |-> NotMask(Bit(k)), indices |-> {k}]
\* the two calls of pass i of the first loop
RowColumnCalls(k, x, y, i) ==
    (IF i # x THEN <<SudokuExclude(k, i + y * BoardSide)>> ELSE <<>>) \o
    (IF i # y THEN <<SudokuExclude(k, x + i * BoardSide)>> ELSE <<>>)
\* variant: the box loops make no call
BoxCall_Skips(k, index, box_x, box_y, j, kk) == <<>>
\* the call of pass (j, kk) of the box loops
BoxCall(k, index, box_x, box_y, j, kk) ==
    LET cell_index == (box_x + j) + (box_y + kk) * BoardSide
    IN IF cell_index # index THEN <<SudokuExclude(k, cell_index)>> ELSE <<>>
RECURSIVE ConcatTo(_, _, _)
\* f(0) \o f(1) \o ... \o f(n - 1) for a table f of sequences
ConcatTo(f, i, n) == IF i >= n THEN <<>> ELSE f[i] \o ConcatTo(f, i + 1, n)
SudokuCalls(index, k) ==
    LET x == index % BoardSide
        y == index \div BoardSide
        box_x == (x \div BoxSide) * BoxSide
        box_y == (y \div BoxSide) * BoxSide
        rows == [i \in 0 .. (BoardSide - 1) |-> RowColumnCalls(k, x, y, i)]
        boxes == [n \in 0 .. (BoxSide * BoxSide - 1) |->
                    BoxCall(k, index, box_x, box_y, n \div BoxSide, n % BoxSide)]
    IN ConcatTo(rows, 0, BoardSide) \o ConcatTo(boxes, 0, BoxSide * BoxSide)

\* the calls the configured rule table makes for a popped cell
TableCalls(c, cell, k) ==
    IF c.table = "matrix"
    THEN MatrixCalls(c.W, c.H, c.V, c.matrix, cell, k)
    ELSE IF c.table = "sudoku"
    THEN SudokuCalls(cell, k)
    ELSE CallsOf(c.W, c.H, c.V, RuleOf(c.rules, k), cell, k)

(***************************************************************************)
(* Solver state.                                                           *)
(*   cfg        what the caller fixes: grid, id-map size, rule table,      *)
(*              configured callbacks, the world as passed in, the seed     *)
(*              and the iteration counter the solver state starts with     *)
(*   world      the caller's world (m_world)                               *)
(*   waves      the waves on the call stack: waves[1] is Run's, the last   *)
(*              one is the wave of the innermost RunLoop                   *)
(*   frames     one record per active Branch call                          *)
(*   queue, arena, selector, iterations   the SolverState members          *)
(*   pc         where control is; calls: constrainer calls the running     *)
(*              rule has still to make; retval: value being returned       *)
(*   build      "any" until a constexpr_assert is violated, then           *)
(*              "release" when execution went on (asserts compiled out),   *)
(*              "undefined" once the outcome of an out-of-bounds write     *)
(*              has been taken                                             *)
(*   fired      the callback fired by the last step, "none" otherwise      *)
(*   last       the constrainer call the last step completed, with the     *)
(*              cell's domain before it; NoCall otherwise                   *)
(***************************************************************************)

\* counts at the start of Run: no on_contradiction fired, no attempt failed
NoCounts == [contradiction |-> 0, failed |-> 0]
\* picked when the step made no selector call
NoPick == [selector |-> "none", max |-> 0, index |-> 0]
\* picked after rng(max) of the named selector returned index
Picked(sel, max, index) == [selector |-> sel, max |-> max, index |-> index]
\* last when the step was not a completed constrainer call
NoCall == [kind |-> "none", cell |-> 0, mask |-> {}, indices |-> {}, before |-> {}]
\* last after the constrainer call c made on wave w
Called(c, w) ==
    [kind |-> c.kind, cell |-> c.cell, mask |-> c.mask, indices |-> c.indices,
     before |-> w[c.cell]]

NumCells == GridSize(cfg.W, cfg.H)
Cells == 0 .. (NumCells - 1)
CurWave == waves[Len(waves)]
HasCallback(name) == name \in cfg.callbacks

Grids ==
    {g \in (1 .. MaxWidth) \X (1 .. MaxHeight) : g[1] * g[2] <= MaxCells}
\* a world cell holds 0 (no id-map value) or an id-map value
Worlds(N, V) ==
    {w \in [0 .. (N - 1) -> 0 .. V] :
        Cardinality({i \in 0 .. (N - 1) : w[i] # 0}) <= MaxPreassigned}
CallbackSets == {{}, {"collapsed", "contradiction", "branch"}}
\* m_iterations when Run is called: a fresh state, or a reused one at or
\* IterSlack below the bound
IterationStarts == {0, MaxIterations - IterSlack, MaxIterations}
\* the seeds handed to SolverState
Seeds == {0, MaxSeed}


\* variant: the world is not refreshed
\* variant: every cell that has a value left is written, collapsed or not
PopulateWorld_WritesOpenCells(wld, w) ==
    [c \in DOMAIN wld |->
        IF w[c] # {} THEN GetValue(GetVariableID(w, c)) ELSE wld[c]]
PopulateWorld_Skips(wld, w) == wld
PopulateWorld(wld, w) ==
    [i \in DOMAIN wld |->
        IF IsCollapsed(w, i) THEN GetValue(GetVariableID(w, i)) ELSE wld[i]]

\* CollapseCell: wave.Collapse(cellId, 1 << value)
CollapseCell(V, w, cellId, value) == WaveCollapse(V, w, cellId, Bit(value))

\* index j of the first id-map value equal to value, -1 when there is none
FindIndex(V, value) ==
    LET js == {j \in 0 .. (V - 1) : GetValue(j) = value}
    IN IF js = {} THEN -1 ELSE Min(js)

RECURSIVE SeedFrom(_, _, _, _)
\* PropogateInitialValues from cell i on; st = [wave, queue, world]
SeedFrom(V, cbs, i, st) ==
    IF i \notin DOMAIN st.wave THEN st
    ELSE LET j == FindIndex(V, st.world[i])
             w1 == CollapseCell(V, st.wave, i, j)
         IN IF j = -1 THEN SeedFrom(V, cbs, i + 1, st)
            ELSE SeedFrom(V, cbs, i + 1,
                     [wave |-> w1,
                      queue |-> QPush(st.queue, i),
                      world |-> IF "collapsed" \in cbs THEN PopulateWorld(st.world, w1)
                                ELSE st.world])

\* the initial-state rules: none (EmptyInitialState), value index 0 excluded
\* from every cell, only the last value index allowed at cell 0
InitialStates == {"none", "excludeFirst", "onlyLastAtOrigin"}
\* the constrainer calls the initial-state rule makes, in order
InitialCalls(N, V, ini) ==
    IF ini = "excludeFirst"
    THEN [i \in 1 .. N |->
            [kind |-> "Exclude", cell |-> i - 1, mask |-> NotMask(GetMask({0})), indices |-> {0}]]
    ELSE IF ini = "onlyLastAtOrigin"
    THEN <<[kind |-> "Only", cell |-> 0, mask |-> GetMask({V - 1}), indices |-> {V - 1}]>>
    ELSE <<>>

Init ==
    /\ \E g \in Grids, V \in 1 .. MaxVars, t \in RuleTables, cbs \in CallbackSets,
          n \in Seeds, it \in IterationStarts, ini \in InitialStates :
         /\ TableFits(t, V)
         /\ (ini # "none" => n = 0 /\ cbs = {})
         /\ \E w0 \in Worlds(g[1] * g[2], V) :
              /\ cfg = [W |-> g[1], H |-> g[2], V |-> V, rules |-> t,
                        callbacks |-> cbs, world0 |-> w0,
                        seed |-> n, iterations0 |-> it, initial |-> ini,
                        table |-> "functions", matrix |-> NoMatrix]
              /\ world = w0
    /\ waves = <<>>
    /\ frames = <<>>
    /\ queue = NewQueue(NumCells)
    /\ arena = NewArena(DefaultPoolSize)
    /\ selector = SeedOf(cfg.seed)
    /\ iterations = cfg.iterations0
    /\ pc = "start"
    /\ calls = <<>>
    /\ retval = FALSE
    /\ build = "any"
    /\ fired = "none"
    /\ last = NoCall
    /\ picked = NoPick
    /\ blocks = <<>>
    /\ counts = NoCounts

(***************************************************************************)
(* Run: build the wave, seed it from the world, enter RunLoop.             *)
(***************************************************************************)
RunStart ==
    /\ pc = "start"
    /\ LET st == SeedFrom(cfg.V, cfg.callbacks, 0,
                          [wave |-> NewWave(NumCells, cfg.V), queue |-> queue, world |-> world])
       IN /\ waves' = <<st.wave>>
          /\ queue' = st.queue
          /\ world' = st.world
    /\ calls' = InitialCalls(NumCells, cfg.V, cfg.initial)
    /\ pc' = IF InitialCalls(NumCells, cfg.V, cfg.initial) = <<>> THEN "loop" ELSE "init"
    /\ fired' = IF HasCallback("collapsed") /\ \E i \in Cells : FindIndex(cfg.V, world[i]) # -1
               THEN "collapsed" ELSE "none"
    /\ last' = NoCall
    /\ picked' = NoPick
    /\ blocks' = blocks
    /\ counts' = counts
    /\ UNCHANGED <<cfg, frames, arena, selector, iterations, retval, build>>

(***************************************************************************)
(* RunLoop: the for-loop test.                                             *)
(***************************************************************************)
\* variant: the loop test lets the bound itself through
RunLoopEnter_Inclusive(iters) == iters <= MaxIterations
RunLoopEnter(iters) == iters < MaxIterations

LoopHead ==
    /\ pc = "loop"
    /\ IF RunLoopEnter(iterations)
       THEN pc' = "propagate" /\ retval' = FALSE
       ELSE pc' = "ret" /\ retval' = FALSE
    /\ fired' = "none"
    /\ last' = NoCall
    /\ picked' = NoPick
    /\ blocks' = blocks
    /\ counts' = counts
    /\ UNCHANGED <<cfg, world, waves, frames, queue, arena, selector, iterations, calls, build>>

(***************************************************************************)
(* Constrainer.  Each operation yields the wave and whether it pushes the   *)
(* cell onto the propagation queue.                                        *)
(***************************************************************************)
\* variant: the push is decided by collapsed alone
ApplyMask_PushesWhenCollapsed(V, w, cellId, mask) ==
    LET w1 == WaveCollapse(V, w, cellId, mask)
        collapsed == IsCollapsed(w1, cellId)
    IN [wave |-> w1, pushed |-> collapsed]
\* variant: the push is decided by wasCollapsed alone
ApplyMask_PushesUncollapsed(V, w, cellId, mask) ==
    LET wasCollapsed == IsCollapsed(w, cellId)
        w1 == WaveCollapse(V, w, cellId, mask)
    IN [wave |-> w1, pushed |-> ~wasCollapsed]
ApplyMask(V, w, cellId, mask) ==
    LET wasCollapsed == IsCollapsed(w, cellId)
        w1 == WaveCollapse(V, w, cellId, mask)
        collapsed == IsCollapsed(w1, cellId)
    IN [wave |-> w1, pushed |-> ~wasCollapsed /\ collapsed]
\* variant: Include skips only cells that have no value left
Include_SkipsEmpty(V, w, cellId, mask) ==
    [wave |-> IF IsContradicted(w, cellId) THEN w ELSE WaveEnable(V, w, cellId, mask),
     pushed |-> FALSE]
\* variant: Include enables the values whatever the cell's entropy
Include_NoGuard(V, w, cellId, mask) ==
    [wave |-> WaveEnable(V, w, cellId, mask), pushed |-> FALSE]
Include(V, w, cellId, mask) ==
    IF IsCollapsed(w, cellId)
    THEN [wave |-> w, pushed |-> FALSE]
    ELSE [wave |-> WaveEnable(V, w, cellId, mask), pushed |-> FALSE]
ConstrainerCall(V, w, call) ==
    IF call.kind = "Include" THEN Include(V, w, call.cell, call.mask)
    ELSE ApplyMask(V, w, call.cell, call.mask)
\* the preconditions of WFCQueue::push (its two constexpr_asserts)
PushPre(q, value) == ~QFull(q) /\ ~QHas(q, value)

SetCurWave(w) == [waves EXCEPT ![Len(waves)] = w]

(***************************************************************************)
(* detail::Propagate: one pop per step, then one constrainer call per step.*)
(***************************************************************************)
PropagatePop ==
    /\ pc = "propagate"
    /\ ~QEmpty(queue)
    /\ LET cellId == QFrontValue(queue)
           variableID == GetVariableID(CurWave, cellId)
           cs == TableCalls(cfg, cellId, variableID)
       IN IF IsContradicted(CurWave, cellId)
          THEN /\ queue' = QPop(queue)
               /\ pc' = "ret" /\ retval' = FALSE
               /\ UNCHANGED <<calls, build>>
          ELSE \/ /\ ~IsCollapsed(CurWave, cellId)
                  /\ build = "any"
                  /\ queue' = QPop(queue)
                  /\ pc' = "thrown"
                  /\ UNCHANGED <<calls, retval, build>>
               \/ /\ queue' = QPop(queue)
                  /\ calls' = cs
                  /\ pc' = IF cs = <<>> THEN "propagate" ELSE "rule"
                  /\ build' = IF IsCollapsed(CurWave, cellId) THEN build ELSE "release"
                  /\ UNCHANGED retval
    /\ fired' = "none"
    /\ last' = NoCall
    /\ picked' = NoPick
    /\ blocks' = blocks
    /\ counts' = counts
    /\ UNCHANGED <<cfg, world, waves, frames, arena, selector, iterations>>

RuleOp ==
    /\ pc = "rule"
    /\ LET call == Head(calls)
           r == ConstrainerCall(cfg.V, CurWave, call)
       IN \/ /\ r.pushed /\ ~PushPre(queue, call.cell)
             /\ build = "any"
             /\ pc' = "thrown"
             /\ last' = NoCall
             /\ picked' = NoPick
             /\ blocks' = blocks
             /\ counts' = counts
             /\ UNCHANGED <<waves, queue, calls, build>>
          \/ /\ r.pushed /\ QFull(queue)
             /\ pc' = "undefined"
             /\ build' = "release"
             /\ last' = NoCall
             /\ picked' = NoPick
             /\ blocks' = blocks
             /\ counts' = counts
             /\ UNCHANGED <<waves, queue, calls>>
          \/ /\ ~(r.pushed /\ QFull(queue))
             /\ last' = Called(call, CurWave)
             /\ picked' = NoPick
             /\ blocks' = blocks
             /\ counts' = counts
             /\ waves' = SetCurWave(r.wave)
             /\ queue' = IF r.pushed THEN QPush(queue, call.cell) ELSE queue
             /\ calls' = Tail(calls)
             /\ pc' = IF Tail(calls) = <<>> THEN "propagate" ELSE "rule"
             /\ build' = IF r.pushed /\ ~PushPre(queue, call.cell) THEN "release" ELSE build
    /\ fired' = "none"
    /\ UNCHANGED <<cfg, world, frames, arena, selector, iterations, retval>>

\* Run's initial-state rule: one constrainer call per step, before RunLoop.
\* Its calls are Exclude and Only, so a cell it pushes was never collapsed
\* before and the preconditions of push hold.
InitialStateOp ==
    /\ pc = "init"
    /\ LET call == Head(calls)
           r == ConstrainerCall(cfg.V, CurWave, call)
       IN /\ r.pushed => PushPre(queue, call.cell)
          /\ last' = Called(call, CurWave)
          /\ picked' = NoPick
          /\ blocks' = blocks
          /\ counts' = counts
          /\ waves' = SetCurWave(r.wave)
          /\ queue' = IF r.pushed THEN QPush(queue, call.cell) ELSE queue
          /\ calls' = Tail(calls)
          /\ pc' = IF Tail(calls) = <<>> THEN "loop" ELSE "init"
    /\ fired' = "none"
    /\ UNCHANGED <<cfg, world, frames, arena, selector, iterations, retval, build>>

(***************************************************************************)
(* RunLoop after the queue has drained.                                    *)
(***************************************************************************)
CheckContradiction ==
    /\ pc = "propagate"
    /\ QEmpty(queue)
    /\ HasContradiction(CurWave)
    /\ world' = IF HasCallback("contradiction") THEN PopulateWorld(world, CurWave) ELSE world
    /\ fired' = IF HasCallback("contradiction") THEN "contradiction" ELSE "none"
    /\ last' = NoCall
    /\ picked' = NoPick
    /\ blocks' = blocks
    /\ counts' = IF HasCallback("contradiction")
                 THEN [counts EXCEPT !.contradiction = @ + 1] ELSE counts
    /\ pc' = "ret" /\ retval' = FALSE
    /\ UNCHANGED <<cfg, waves, frames, queue, arena, selector, iterations, calls, build>>

CheckSolved ==
    /\ pc = "propagate"
    /\ QEmpty(queue)
    /\ ~HasContradiction(CurWave)
    /\ IsFullyCollapsed(CurWave)
    /\ pc' = "ret" /\ retval' = TRUE
    /\ fired' = "none"
    /\ last' = NoCall
    /\ picked' = NoPick
    /\ blocks' = blocks
    /\ counts' = counts
    /\ UNCHANGED <<cfg, world, waves, frames, queue, arena, selector, iterations, calls, build>>

(***************************************************************************)
(* Branch.                                                                 *)
(***************************************************************************)
\* the cell of minimum entropy > 1, lowest id first; -1 when there is none
\* variant: the first cell of entropy > 1, whatever its entropy
MinEntropyCell_FirstOpen(w) ==
    LET cand == {i \in DOMAIN w : Entropy(w, i) > 1}
    IN IF cand = {} THEN -1 ELSE Min(cand)
MinEntropyCell(w) ==
    LET cand == {i \in DOMAIN w : Entropy(w, i) > 1}
        best == {i \in cand : \A j \in cand : Entropy(w, i) <= Entropy(w, j)}
    IN IF cand = {} THEN -1 ELSE Min(best)
RECURSIVE BitsAscending(_)
\* the set bits of mask, lowest first (countr_zero, then mask & (mask - 1))
BitsAscending(mask) ==
    IF mask = {} THEN <<>>
    ELSE <<CountrZero(mask)>> \o BitsAscending(mask \ {CountrZero(mask)})
\* std::array<VariableIDT, V> possibleValues{} filled from the mask
PossibleValues(V, mask) ==
    LET bits == BitsAscending(mask)
    IN [i \in 1 .. V |-> IF i <= Len(bits) THEN bits[i] ELSE 0]
\* std::swap(possibleValues[randomIndex], possibleValues[--availableValues])
\* variant: the count goes down but the tried value stays where it was
SwapRemove_NoSwap(P, randomIndex, availableValues) == P
SwapRemove(P, randomIndex, availableValues) ==
    [P EXCEPT ![randomIndex + 1] = P[availableValues], ![availableValues] = P[randomIndex + 1]]
\* variant: the failed value stays in the parent wave
RemoveFailed_KeepsValue(V, w, cellId, selectedValue) == w
\* variant: the failed value takes the cell's other values with it
RemoveFailed_ClearsCell(V, w, cellId, selectedValue) == WaveCollapse(V, w, cellId, {})
\* wave.Collapse(minEntropyCell, ~(1 << selectedValue))
RemoveFailed(V, w, cellId, selectedValue) == WaveCollapse(V, w, cellId, NotMask(Bit(selectedValue)))

BranchEnter ==
    /\ pc = "propagate"
    /\ QEmpty(queue)
    /\ ~HasContradiction(CurWave)
    /\ ~IsFullyCollapsed(CurWave)
    /\ world' = IF HasCallback("branch") THEN PopulateWorld(world, CurWave) ELSE world
    /\ fired' = IF HasCallback("branch") THEN "branch" ELSE "none"
    /\ last' = NoCall
    /\ picked' = NoPick
    /\ blocks' = blocks
    /\ counts' = counts
    /\ LET c == MinEntropyCell(CurWave)
       IN IF c = -1
          THEN /\ pc' = "loop"
               /\ iterations' = iterations + 1
               /\ UNCHANGED frames
          ELSE /\ frames' = Append(frames,
                     [cell |-> c,
                      possibleValues |-> PossibleValues(cfg.V, CurWave[c]),
                      availableValues |-> Entropy(CurWave, c),
                      randomIndex |-> 0, selectedValue |-> 0,
                      stackFrame |-> CreateFrame(arena),
                      queueFrame |-> CreateBranchPoint(queue),
                      atOpen |-> [arena |-> arena, queue |-> queue, wave |-> CurWave,
                                  counts |-> counts]])
               /\ pc' = "attempt"
               /\ UNCHANGED iterations
    /\ UNCHANGED <<cfg, waves, queue, arena, selector, calls, retval, build>>

Top == frames[Len(frames)]

BranchAttempt ==
    /\ pc = "attempt"
    /\ Top.availableValues > 0
    /\ LET r == Rng(selector, Top.availableValues)
           selectedValue == Top.possibleValues[r.pick + 1]
           newWave == CollapseCell(cfg.V, CurWave, Top.cell, selectedValue)
           wld == IF HasCallback("collapsed") THEN PopulateWorld(world, newWave) ELSE world
       IN /\ selector' = r.seed
          /\ world' = wld
          /\ fired' = IF HasCallback("collapsed") THEN "collapsed" ELSE "none"
          /\ last' = NoCall
          /\ picked' = Picked("DefaultRandomSelector", Top.availableValues, r.pick)
          /\ blocks' = blocks
          /\ counts' = counts
          /\ \/ /\ ~PushPre(queue, Top.cell)
                /\ build = "any"
                /\ pc' = "thrown"
                /\ UNCHANGED <<waves, frames, queue, arena, build>>
             \/ /\ QFull(queue)
                /\ pc' = "undefined"
                /\ build' = "release"
                /\ UNCHANGED <<waves, frames, queue, arena>>
             \/ /\ ~QFull(queue)
                /\ frames' = [frames EXCEPT ![Len(frames)] =
                      [@ EXCEPT !.randomIndex = r.pick,
                                !.selectedValue = selectedValue,
                                !.stackFrame = CreateFrame(arena),
                                !.queueFrame = CreateBranchPoint(queue),
                                !.atOpen = [arena |-> arena, queue |-> queue, wave |-> CurWave,
                                            counts |-> counts]]]
                /\ arena' = arena
                /\ waves' = Append(waves, newWave)
                /\ queue' = QPush(queue, Top.cell)
                /\ build' = IF PushPre(queue, Top.cell) THEN build ELSE "release"
                /\ pc' = "loop"
    /\ UNCHANGED <<cfg, iterations, calls, retval>>

\* the while loop ran out of values: Branch returns false, RunLoop goes round
BranchExhausted ==
    /\ pc = "attempt"
    /\ Top.availableValues = 0
    /\ frames' = SubSeq(frames, 1, Len(frames) - 1)
    /\ iterations' = iterations + 1
    /\ pc' = "loop"
    /\ fired' = "none"
    /\ last' = NoCall
    /\ picked' = NoPick
    /\ blocks' = blocks
    /\ counts' = counts
    /\ UNCHANGED <<cfg, world, waves, queue, arena, selector, calls, retval, build>>

\* the nested RunLoop returned false: guards restore, the value is removed
AttemptFailed ==
    /\ pc = "ret"
    /\ Len(waves) > 1
    /\ ~retval
    /\ queue' = RestoreBranchPoint(queue, Top.queueFrame)
    /\ arena' = DestroyFrame(arena, Top.stackFrame)
    /\ waves' = [SubSeq(waves, 1, Len(waves) - 1) EXCEPT ![Len(waves) - 1] =
                    RemoveFailed(cfg.V, @, Top.cell, Top.selectedValue)]
    /\ frames' = [frames EXCEPT ![Len(frames)] =
          [@ EXCEPT !.possibleValues = SwapRemove(@, Top.randomIndex, Top.availableValues),
                    !.availableValues = @ - 1]]
    /\ pc' = "attempt"
    /\ fired' = "none"
    /\ last' = NoCall
    /\ picked' = NoPick
    /\ blocks' = blocks
    /\ counts' = [counts EXCEPT !.failed = @ + 1]
    /\ UNCHANGED <<cfg, world, selector, iterations, calls, retval, build>>

\* the nested RunLoop returned true: wave = newWave, Branch and RunLoop return true
AttemptSucceeded ==
    /\ pc = "ret"
    /\ Len(waves) > 1
    /\ retval
    /\ queue' = RestoreBranchPoint(queue, Top.queueFrame)
    /\ arena' = DestroyFrame(arena, Top.stackFrame)
    /\ waves' = [SubSeq(waves, 1, Len(waves) - 1) EXCEPT ![Len(waves) - 1] = CurWave]
    /\ frames' = SubSeq(frames, 1, Len(frames) - 1)
    /\ pc' = "ret"
    /\ fired' = "none"
    /\ last' = NoCall
    /\ picked' = NoPick
    /\ blocks' = blocks
    /\ counts' = counts
    /\ UNCHANGED <<cfg, world, selector, iterations, calls, retval, build>>

(***************************************************************************)
(* Run returns.                                                            *)
(***************************************************************************)
\* variant: Run copies the wave into the world whatever RunLoop returned
RunReturn_AlwaysWrites ==
    /\ pc = "ret"
    /\ Len(waves) = 1
    /\ world' = PopulateWorld(world, waves[1])
    /\ pc' = "done"
    /\ fired' = "none"
    /\ last' = NoCall
    /\ picked' = NoPick
    /\ blocks' = blocks
    /\ counts' = counts
    /\ UNCHANGED <<cfg, waves, frames, queue, arena, selector, iterations, calls, retval, build>>
RunReturn ==
    /\ pc = "ret"
    /\ Len(waves) = 1
    /\ world' = IF retval THEN PopulateWorld(world, waves[1]) ELSE world
    /\ pc' = "done"
    /\ fired' = "none"
    /\ last' = NoCall
    /\ picked' = NoPick
    /\ blocks' = blocks
    /\ counts' = counts
    /\ UNCHANGED <<cfg, waves, frames, queue, arena, selector, iterations, calls, retval, build>>

\* a push wrote past the end of the queue's container in a build without
\* asserts: the behaviour is undefined; the run may return either value or
\* never return
UndefinedOutcome ==
    /\ pc = "undefined"
    /\ \/ /\ pc' = "done"
          /\ \E b \in BOOLEAN :
               /\ retval' = b
               /\ world' = IF b THEN PopulateWorld(world, waves[1]) ELSE world
       \/ /\ pc' = "crashed"
          /\ UNCHANGED <<retval, world>>
    /\ build' = "undefined"
    /\ fired' = "none"
    /\ last' = NoCall
    /\ picked' = NoPick
    /\ blocks' = blocks
    /\ counts' = counts
    /\ UNCHANGED <<cfg, waves, frames, queue, arena, selector, iterations, calls>>

Next ==
    \/ RunStart
    \/ LoopHead
    \/ PropagatePop
    \/ RuleOp
    \/ InitialStateOp
    \/ CheckContradiction
    \/ CheckSolved
    \/ BranchEnter
    \/ BranchAttempt
    \/ BranchExhausted
    \/ AttemptFailed
    \/ AttemptSucceeded
    \/ RunReturn
    \/ UndefinedOutcome

Spec == Init /\ [][Next]_vars

(***************************************************************************)
(* The value selectors on their own: rng(max) of each, from any state.     *)
(***************************************************************************)
\* halves of m_seed a selector is taken from, the default seed's among them
SelectorHalves == {0, 1, DefaultSeedHi, DefaultSeedLo, Half \div 2, Half - 1}
SelectorStates == SelectorHalves \X SelectorHalves
\* a solver on a one-cell world that is never run, holding the selector
SelectorInit ==
    /\ \E w0 \in Worlds(1, 1) :
          /\ w0[0] = 0
          /\ cfg = [W |-> 1, H |-> 1, V |-> 1, rules |-> <<NoRule, NoRule>>,
                    callbacks |-> {}, world0 |-> w0,
                    seed |-> 0, iterations0 |-> 0, initial |-> "none",
                    table |-> "functions", matrix |-> NoMatrix]
          /\ world = w0
    /\ waves = <<>>
    /\ frames = <<>>
    /\ queue = NewQueue(NumCells)
    /\ arena = NewArena(DefaultPoolSize)
    /\ selector \in SelectorStates
    /\ iterations = 0
    /\ pc = "start"
    /\ calls = <<>>
    /\ retval = FALSE
    /\ build = "any"
    /\ fired = "none"
    /\ last = NoCall
    /\ picked = NoPick
    /\ blocks = <<>>
    /\ counts = NoCounts
\* DefaultRandomSelector::rng(max): advance m_seed, return m_seed % max
DefaultRandomSelector_rng ==
    /\ picked = NoPick
    /\ \E max \in 1 .. MaxPick :
          LET r == Rng(selector, max)
          IN /\ selector' = r.seed
             /\ picked' = Picked("DefaultRandomSelector", max, r.pick)
    /\ UNCHANGED <<cfg, world, waves, frames, queue, arena, iterations,
                   pc, calls, retval, build, fired, last, counts, blocks>>
\* AdvancedRandomSelector::rng(max): uniform_int_distribution<uint32_t>(0, max)
\* over the referenced mt19937; the distribution's range is closed, and over
\* the generator's states it returns each value of 0 .. max
AdvancedRandomSelector_rng ==
    /\ picked = NoPick
    /\ \E max \in 1 .. MaxPick :
          \E i \in 0 .. max :
             picked' = Picked("AdvancedRandomSelector", max, i)
    /\ UNCHANGED <<cfg, world, waves, frames, queue, arena, selector, iterations,
                   pc, calls, retval, build, fired, last, counts, blocks>>
SelectorNext ==
    \/ DefaultRandomSelector_rng
    \/ AdvancedRandomSelector_rng
SelectorSpec == SelectorInit /\ [][SelectorNext]_vars

(***************************************************************************)
(* Runs over an adjacency-matrix rule table, on one-row worlds of two      *)
(* values.                                                                 *)
(***************************************************************************)
MatrixInit ==
    /\ \E W \in 1 .. MatrixWidth, dirs \in DirectionLists, n \in Seeds :
         \E data \in MatrixData(Len(dirs), MatrixVars), w0 \in Worlds(W, MatrixVars) :
              /\ cfg = [W |-> W, H |-> 1, V |-> MatrixVars, rules |-> <<NoRule, NoRule>>,
                        callbacks |-> {}, world0 |-> w0,
                        seed |-> n, iterations0 |-> 0, initial |-> "none",
                        table |-> "matrix", matrix |-> [dirs |-> dirs, data |-> data]]
              /\ world = w0
    /\ waves = <<>>
    /\ frames = <<>>
    /\ queue = NewQueue(NumCells)
    /\ arena = NewArena(DefaultPoolSize)
    /\ selector = SeedOf(cfg.seed)
    /\ iterations = cfg.iterations0
    /\ pc = "start"
    /\ calls = <<>>
    /\ retval = FALSE
    /\ build = "any"
    /\ fired = "none"
    /\ last = NoCall
    /\ picked = NoPick
    /\ blocks = <<>>
    /\ counts = NoCounts
\* the steps of Run that a matrix table can take: its calls are all
\* intersections, and no initial-state rule is configured
MatrixNext ==
    \/ RunStart
    \/ LoopHead
    \/ PropagatePop
    \/ RuleOp
    \/ CheckContradiction
    \/ CheckSolved
    \/ BranchEnter
    \/ BranchAttempt
    \/ BranchExhausted
    \/ AttemptFailed
    \/ AttemptSucceeded
    \/ RunReturn
MatrixSpec == MatrixInit /\ [][MatrixNext]_vars

(***************************************************************************)
(* Runs of the Sudoku solver on puzzles cut from a solved board.           *)
(***************************************************************************)
\* the solution of the puzzle below, row by row
SolvedBoard ==
    <<5, 3, 4, 6, 7, 8, 9, 1, 2,
      6, 7, 2, 1, 9, 5, 3, 4, 8,
      1, 9, 8, 3, 4, 2, 5, 6, 7,
      8, 5, 9, 7, 6, 1, 4, 2, 3,
      4, 2, 6, 8, 5, 3, 7, 9, 1,
      7, 1, 3, 9, 2, 4, 8, 5, 6,
      9, 6, 1, 5, 3, 7, 2, 8, 4,
      2, 8, 7, 4, 1, 9, 6, 3, 5,
      3, 4, 5, 2, 8, 6, 1, 7, 9>>
\* the puzzle 53..7....|6..195...|.98....6.|8...6...3|4..8.3..1|7...2...6|
\* .6....28.|...419..5|....8..79, 0 for an empty cell
ExamplePuzzle ==
    <<5, 3, 0, 0, 7, 0, 0, 0, 0,
      6, 0, 0, 1, 9, 5, 0, 0, 0,
      0, 9, 8, 0, 0, 0, 0, 6, 0,
      8, 0, 0, 0, 6, 0, 0, 0, 3,
      4, 0, 0, 8, 0, 3, 0, 0, 1,
      7, 0, 0, 0, 2, 0, 0, 0, 6,
      0, 6, 0, 0, 0, 0, 2, 8, 0,
      0, 0, 0, 4, 1, 9, 0, 0, 5,
      0, 0, 0, 0, 8, 0, 0, 7, 9>>
SudokuCells == 0 .. (BoardSide * BoardSide - 1)
\* a board read as a world: cell c holds the c-th entry
BoardWorld(b) == [c \in SudokuCells |-> b[c + 1]]
\* the cells whose given may be taken away from a puzzle
ErasePool == {c \in SudokuCells : c % ErasePoolStride = 0}
\* the puzzles: the example puzzle with up to MaxErased cells of the pool
\* emptied; the solved board completes each of them
SudokuPuzzles ==
    {[c \in SudokuCells |-> IF c \in E THEN 0 ELSE b[c + 1]] :
        b \in {ExamplePuzzle},
        E \in {X \in SUBSET ErasePool : Cardinality(X) <= MaxErased}}
SudokuInit ==
    /\ \E w0 \in SudokuPuzzles, n \in Seeds, cbs \in CallbackSets :
          /\ cfg = [W |-> BoardSide, H |-> BoardSide, V |-> BoardSide,
                    rules |-> <<NoRule, NoRule>>,
                    callbacks |-> cbs, world0 |-> w0,
                    seed |-> n, iterations0 |-> 0, initial |-> "none",
                    table |-> "sudoku", matrix |-> NoMatrix]
          /\ world = w0
    /\ waves = <<>>
    /\ frames = <<>>
    /\ queue = NewQueue(NumCells)
    /\ arena = NewArena(DefaultPoolSize)
    /\ selector = SeedOf(cfg.seed)
    /\ iterations = cfg.iterations0
    /\ pc = "start"
    /\ calls = <<>>
    /\ retval = FALSE
    /\ build = "any"
    /\ fired = "none"
    /\ last = NoCall
    /\ picked = NoPick
    /\ blocks = <<>>
    /\ counts = NoCounts
SudokuNext ==
    \/ RunStart
    \/ LoopHead
    \/ PropagatePop
    \/ RuleOp
    \/ CheckContradiction
    \/ CheckSolved
    \/ BranchEnter
    \/ BranchAttempt
    \/ BranchExhausted
    \/ AttemptFailed
    \/ AttemptSucceeded
    \/ RunReturn
SudokuSpec == SudokuInit /\ [][SudokuNext]_vars

(***************************************************************************)
(* What it means for an assignment to satisfy the rules.                   *)
(***************************************************************************)
IdValues == {GetValue(j) : j \in 0 .. (cfg.V - 1)}
Returned == pc = "done" /\ build # "undefined"
\* the wave in which every cell holds exactly the value index a[c]
WaveOf(a) == [c \in DOMAIN a |-> Bit(a[c])]
RECURSIVE Removes(_, _, _)
\* some call of cs, made in order on w, takes a value away from a cell
Removes(V, w, cs) ==
    IF cs = <<>> THEN FALSE
    ELSE LET w1 == ConstrainerCall(V, w, Head(cs)).wave
         IN (\E c \in DOMAIN w : w[c] \ w1[c] # {}) \/ Removes(V, w1, Tail(cs))
\* re-applying rule a[c] at every cell c removes nothing
SatisfiesRules(a) ==
    \A c \in DOMAIN a :
        ~Removes(cfg.V, WaveOf(a),
                 CallsOf(cfg.W, cfg.H, cfg.V, RuleOf(cfg.rules, a[c]), c, a[c]))
KeepsPreassigned(a) ==
    \A c \in DOMAIN a : cfg.world0[c] \in IdValues => GetValue(a[c]) = cfg.world0[c]
\* the assignment passes the initial-state rule: re-applying it removes nothing
KeepsInitialState(a) ==
    ~Removes(cfg.V, WaveOf(a), InitialCalls(NumCells, cfg.V, cfg.initial))
\* exhaustive enumeration of the assignments of one value index per cell
Solutions ==
    {a \in [Cells -> 0 .. (cfg.V - 1)] :
        KeepsPreassigned(a) /\ KeepsInitialState(a) /\ SatisfiesRules(a)}
WorldAssignment == [c \in Cells |-> GetIndex(world[c])]

\* C1: when run returns success the world holds one id-map value per cell
\* and re-applying every cell's rule to the final wave removes nothing
\* (stated for the rule tables that use only Exclude and Only).
C1_SuccessIsSolution ==
    (Returned /\ retval /\ ~UsesInclude(cfg.rules)) =>
        /\ \A c \in Cells : world[c] \in IdValues
        /\ SatisfiesRules(WorldAssignment)
\* C1 with at least two id-map values: the part of the claim the code keeps
C1_SuccessIsSolutionTwoValues ==
    (cfg.V >= 2) => C1_SuccessIsSolution

\* C2: when run returns failure below the iteration bound, with a rule
\* table of Exclude and Only, exhaustive enumeration finds no assignment
\* that keeps the pre-assigned cells and satisfies all rules.
C2_FailureMeansNoSolution ==
    (Returned /\ ~retval /\ iterations < MaxIterations /\ ~UsesInclude(cfg.rules))
        => Solutions = {}
\* a failure reached after a branch was abandoned, on a world that has no solution
C2_Witness ==
    /\ Returned /\ ~retval /\ iterations < MaxIterations /\ ~UsesInclude(cfg.rules)
    /\ selector # SeedOf(cfg.seed)
    /\ \E c \in Cells : cfg.world0[c] = 0
    /\ Solutions = {}

\* C7: with the single value A and a rule that empties every neighbour of a
\* collapsed A, run on a 2x2 world with nothing pre-assigned returns failure.
C7_SingleValueFails ==
    (/\ Returned
     /\ cfg.W = 2 /\ cfg.H = 2 /\ cfg.V = 1
     /\ cfg.rules = <<(<<Op("Exclude", "all", "same")>>), NoRule>>
     /\ cfg.initial = "none"
     /\ \A c \in Cells : cfg.world0[c] = 0)
        => ~retval

\* the runs of the narrow worlds, without callbacks, from a fresh solver
\* state, under weak fairness: the solver takes a step while one is enabled
TermInit == Init /\ NumCells <= MaxTermCells /\ cfg.callbacks = {} /\ cfg.iterations0 = 0
FairSpec == TermInit /\ [][Next]_vars /\ WF_vars(Next)

\* C3: every run eventually returns, with success or with failure.
C3_EventuallyReturns == <>(pc = "done" /\ build # "undefined")
\* C3, the finite form: a run never stops without returning a flag.
C3_NeverAborts == pc \notin {"thrown", "undefined", "crashed"}

\* C4: two runs from identical inputs return the same flag: a state of a
\* run never has both a returning-success and a returning-failure successor.
ReturnStep == RunReturn \/ UndefinedOutcome
FailedAttemptStep == pc = "ret" /\ Len(waves) > 1 /\ ~retval /\ pc' = "attempt"
C5_FailedAttemptRestores ==
    [][FailedAttemptStep =>
         LET f == Top
             parent == waves'[Len(waves')]
         IN /\ arena'.cur = f.atOpen.arena.cur
            /\ \A i \in DOMAIN arena'.pools :
                  arena'.pools[i].used = f.atOpen.arena.pools[i].used
            /\ ArenaCapacity(arena') = ArenaCapacity(f.atOpen.arena)
            /\ queue'.front = f.atOpen.queue.front
            /\ queue'.back = f.atOpen.queue.back
            /\ \A c \in Cells \ {f.cell} : parent[c] = f.atOpen.wave[c]
            /\ f.selectedValue \in f.atOpen.wave[f.cell]
            /\ parent[f.cell] = f.atOpen.wave[f.cell] \ {f.selectedValue}]_vars
\* a failed attempt has just returned: the chosen cell lost the tried value,
\* another value is left to try, and the attempt's push is still in the
\* container behind the restored back index
C5_Witness ==
    /\ pc = "attempt"
    /\ Top.availableValues >= 1
    /\ Top.selectedValue \in Top.atOpen.wave[Top.cell]
    /\ CurWave[Top.cell] = Top.atOpen.wave[Top.cell] \ {Top.selectedValue}
    /\ queue.back = Top.atOpen.queue.back
    /\ arena = Top.atOpen.arena
    /\ queue.container[queue.back] = Top.cell

\* C6: after a successful run a cell that the caller pre-assigned an id-map
\* value v holds v.
C6_PreassignedKept ==
    (Returned /\ retval /\ build = "any") =>
        \A c \in Cells : cfg.world0[c] \in IdValues => world[c] = cfg.world0[c]
\* C6 for the rule tables without Include: the part the code keeps
C6_PreassignedKeptNoInclude ==
    ~UsesInclude(cfg.rules) => C6_PreassignedKept

\* C8: run writes to the world only at the end of a successful solve or in
\* the step that fires a configured callback; with no callbacks configured a
\* run that returns failure leaves the world as the caller passed it.
C8_WorldWrites ==
    /\ [][(world' # world /\ build' # "undefined") =>
             \/ pc = "ret" /\ pc' = "done" /\ retval
             \/ fired' \in cfg.callbacks]_vars
    /\ []((Returned /\ ~retval /\ cfg.callbacks = {}) => world = cfg.world0)
\* a failing run without callbacks on a world with a pre-assigned cell,
\* whose wave had collapsed further cells before the failure
C8_Witness ==
    /\ Returned /\ ~retval /\ cfg.callbacks = {}
    /\ \E c \in Cells : cfg.world0[c] # 0
    /\ \E c \in Cells : cfg.world0[c] = 0 /\ IsCollapsed(waves[1], c)
    /\ world = cfg.world0

\* C9: once the iteration counter has reached MaxIterations no rule is
\* invoked and no queue entry is popped, every RunLoop call returns failure
\* at once without touching wave, queue, branch frames or world, and run
\* returns failure.
C9_BoundStops ==
    /\ [](iterations >= MaxIterations => pc \notin {"propagate", "rule"})
    /\ [][(iterations >= MaxIterations /\ pc = "loop") =>
             /\ pc' = "ret" /\ ~retval'
             /\ UNCHANGED <<waves, queue, frames, world, selector>>]_vars
    /\ []((Returned /\ iterations >= MaxIterations) => ~retval)
\* the counter reached the bound during the run, after a branch ran out of
\* values, and run returned failure
C9_Witness ==
    /\ Returned /\ ~retval
    /\ cfg.iterations0 < MaxIterations
    /\ iterations = MaxIterations

\* C10: a constrainer operation that takes a cell from not-collapsed to
\* collapsed pushes the cell id onto the propagation queue exactly once.
ConstrainerStep ==
    \/ pc = "rule" /\ pc' \in {"rule", "propagate"}
    \/ pc = "init" /\ pc' \in {"init", "loop"}
PushedOnce(c) ==
    /\ queue'.back = queue.back + 1
    /\ queue'.front = queue.front
    /\ queue'.container[queue.back] = c
C10_CollapsePushes ==
    [][ConstrainerStep =>
         \A c \in Cells :
            (~IsCollapsed(CurWave, c) /\ IsCollapsed(waves'[Len(waves')], c))
                => PushedOnce(c)]_vars
\* C10 for Exclude and Only (ApplyMask): the part the code keeps
C10_ApplyMaskPushes ==
    [][(ConstrainerStep /\ Head(calls).kind # "Include") =>
         \A c \in Cells :
            (~IsCollapsed(CurWave, c) /\ IsCollapsed(waves'[Len(waves')], c))
                => PushedOnce(c)]_vars

\* C11: every push onto the propagation queue (seeding, a rule through the
\* constrainer, a branch observation) stores a cell whose entropy is exactly
\* 1 in the wave being solved.
C11_PushedCellsCollapsed ==
    [][queue'.back > queue.back =>
         \A i \in queue.back .. (queue'.back - 1) :
            IsCollapsed(waves'[Len(waves')], queue'.container[i])]_vars
\* outside any branch, the queue holds a cell the caller did not pre-assign:
\* a rule pushed it through ApplyMask
C11_Witness ==
    /\ pc = "propagate"
    /\ Len(waves) = 1
    /\ build = "any"
    /\ \E i \in 0 .. (queue.back - 1) :
          /\ cfg.world0[queue.container[i]] = 0
          /\ IsCollapsed(CurWave, queue.container[i])

\* C12: Include applied to a cell whose entropy is exactly 1 leaves the
\* whole wave and the propagation queue unchanged.
C12_IncludeOnCollapsedIsNoOp ==
    [][(ConstrainerStep /\ Head(calls).kind = "Include"
            /\ IsCollapsed(CurWave, Head(calls).cell))
          => UNCHANGED <<waves, queue>>]_vars
\* an Include has just been made on a collapsed cell with a value the cell
\* did not hold, and the cell is as it was
C12_Witness ==
    /\ last.kind = "Include"
    /\ Cardinality(last.before) = 1
    /\ last.indices \ last.before # {}
    /\ CurWave[last.cell] = last.before

\* C13: for a non-empty set S of id-map values, Exclude leaves the cell with
\* (domain minus S), Only with (domain intersected with S), and Include on a
\* not-collapsed cell with (domain united with S); no other cell changes.
C13_OperationSemantics ==
    [][ConstrainerStep =>
         LET c == Head(calls)
             old == CurWave
             new == waves'[Len(waves')]
         IN /\ c.indices # {}
            /\ \A d \in Cells \ {c.cell} : new[d] = old[d]
            /\ c.kind = "Exclude" => new[c.cell] = old[c.cell] \ c.indices
            /\ c.kind = "Only" => new[c.cell] = old[c.cell] \cap c.indices
            /\ (c.kind = "Include" /\ ~IsCollapsed(old, c.cell))
                  => new[c.cell] = old[c.cell] \cup c.indices]_vars
\* an Exclude has just taken some but not all values from a cell
C13_Witness ==
    /\ last.kind = "Exclude"
    /\ last.before \cap last.indices # {}
    /\ last.before \ last.indices # {}
    /\ CurWave[last.cell] = last.before \ last.indices

\* C14: no Exclude or Only adds a value to a domain, and no operation adds a
\* value to a cell whose entropy is 1; so under a rule table without Include
\* every cell's domain in a wave is, at every step, a subset of what it was
\* in that wave before the step.
C14_DomainsOnlyShrink ==
    [][/\ (ConstrainerStep /\ Head(calls).kind # "Include")
            => \A c \in Cells : waves'[Len(waves')][c] \subseteq CurWave[c]
       /\ ConstrainerStep
            => \A c \in Cells :
                  IsCollapsed(CurWave, c) => waves'[Len(waves')][c] \subseteq CurWave[c]
       /\ (~UsesInclude(cfg.rules) /\ pc # "done")
            => \A l \in 1 .. Min({Len(waves), Len(waves')}) :
                  \A c \in Cells : waves'[l][c] \subseteq waves[l][c]]_vars
\* under a table without Include, an Only has just shrunk a cell in a wave
\* that a branch attempt is propagating
C14_Witness ==
    /\ ~UsesInclude(cfg.rules)
    /\ Len(waves) >= 2
    /\ last.kind = "Only"
    /\ CurWave[last.cell] # last.before
    /\ CurWave[last.cell] \subseteq last.before

\* C15: for every max >= 1 and every internal state, the index returned by
\* either selector's rng(max) satisfies 0 <= index < max.
C15_PickInRange ==
    picked.selector # "none" =>
        /\ picked.max >= 1
        /\ 0 <= picked.index
        /\ picked.index < picked.max
\* C15 for the linear-congruential selector alone
C15_DefaultPickInRange ==
    picked.selector = "DefaultRandomSelector" =>
        /\ 0 <= picked.index
        /\ picked.index < picked.max
\* what the Mersenne-Twister selector keeps: 0 <= index <= max
C15_AdvancedPickAtMostMax ==
    picked.selector = "AdvancedRandomSelector" =>
        /\ 0 <= picked.index
        /\ picked.index <= picked.max
\* the Mersenne-Twister selector has returned max itself
C15_AdvancedReturnsMax ==
    /\ picked.selector = "AdvancedRandomSelector"
    /\ picked.index = picked.max

\* the 3x1 world over {L, R} (value indices 0 and 1) with cell 0 pre-assigned
\* L, one direction dir, M[dir][L] = {R} and M[dir][R] = {L}
MatrixExample(dir) ==
    /\ cfg.table = "matrix"
    /\ cfg.W = 3
    /\ cfg.matrix.dirs = <<dir>>
    /\ cfg.matrix.data[1] = {1} /\ cfg.matrix.data[2] = {0}
    /\ cfg.world0 = [c \in 0 .. 2 |-> IF c = 0 THEN GetValue(0) ELSE 0]
LeftRightLeft == [c \in 0 .. 2 |-> IF c = 1 THEN GetValue(1) ELSE GetValue(0)]
\* popping a collapsed cell of value index k queues, for every direction d,
\* one call on the neighbour the neighbour function returns, with M[d][k];
\* each call leaves that neighbour with (domain intersected with the mask)
\* and every other cell as it was
MatrixPopIntersects ==
    [][/\ (PropagatePop /\ IsCollapsed(CurWave, QFrontValue(queue)))
            => LET cell == QFrontValue(queue)
                   k == GetVariableID(CurWave, cell)
               IN /\ Len(calls') = Len(cfg.matrix.dirs)
                  /\ \A d \in 1 .. Len(cfg.matrix.dirs) :
                        /\ calls'[d].cell = GetNeighbor(cfg.W, cfg.H, cfg.matrix.dirs[d], cell)
                        /\ calls'[d].mask = cfg.matrix.data[(d - 1) * cfg.V + k + 1]
       /\ RuleOp
            => LET c == Head(calls)
               IN \A x \in Cells :
                     waves'[Len(waves')][x] =
                        IF x = c.cell THEN CurWave[x] \cap c.mask ELSE CurWave[x]]_vars
BasicExample ==
    /\ cfg.W = 2 /\ cfg.H = 2 /\ cfg.V = 2
    /\ cfg.rules = <<BasicExampleBody, BasicExampleBody>>
    /\ \A c \in Cells : cfg.world0[c] = 0
    /\ cfg.initial = "none"
    /\ cfg.iterations0 = 0
Checkerboards ==
    {[c \in 0 .. 3 |-> IF c \in {0, 3} THEN GetValue(a) ELSE GetValue(1 - a)] : a \in {0, 1}}
\* C17: on the basic example, for every seed, run never aborts, returns
\* success, and leaves the world as one of the two checkerboards.
C17_BasicExampleCheckerboard ==
    BasicExample =>
        /\ pc \notin {"thrown", "undefined"}
        /\ build = "any"
        /\ pc = "done" => (retval = TRUE /\ world \in Checkerboards)
\* the basic example has returned with B in the first cell
C17_Witness ==
    /\ BasicExample
    /\ pc = "done" /\ retval = TRUE
    /\ world \in Checkerboards
    /\ world[0] = GetValue(1)

\* the cells of the rows, the columns and the boxes of the board
SudokuUnits ==
    {{r * BoardSide + i : i \in 0 .. (BoardSide - 1)} : r \in 0 .. (BoardSide - 1)} \cup
    {{i * BoardSide + c : i \in 0 .. (BoardSide - 1)} : c \in 0 .. (BoardSide - 1)} \cup
    {{(by * BoxSide + j) * BoardSide + (bx * BoxSide + i) :
          i \in 0 .. (BoxSide - 1), j \in 0 .. (BoxSide - 1)} :
       bx \in 0 .. (BoxSide - 1), by \in 0 .. (BoxSide - 1)}
\* Sudoku::isSolved as the claim words it
BoardSolved(b) ==
    /\ \A c \in SudokuCells : b[c] \in 1 .. BoardSide
    /\ \A u \in SudokuUnits : \A c, d \in u : c # d => b[c] # b[d]
\* the puzzle is valid and the solved board is a solution of it
SolvablePuzzle(b) ==
    /\ \A c \in SudokuCells : b[c] # 0 => b[c] = SolvedBoard[c + 1]
    /\ BoardSolved(BoardWorld(SolvedBoard))
\* C18: for every valid puzzle that has a solution, the run of the Sudoku
\* solver does not abort and ends with the board solved (values 1..9, no
\* repeat in a row, column or box) and every given kept; the example puzzle
\* ends as its known solution.
C18_SudokuSolved ==
    (pc \in {"done", "thrown", "undefined"} /\ SolvablePuzzle(cfg.world0)) =>
        /\ pc = "done"
        /\ retval = TRUE
        /\ BoardSolved(world)
        /\ \A c \in SudokuCells : cfg.world0[c] # 0 => world[c] = cfg.world0[c]
        /\ cfg.world0 = BoardWorld(ExamplePuzzle) => world = BoardWorld(SolvedBoard)
\* a puzzle with several solutions has been solved, by guessing, with a
\* board other than the known one
C18_Witness ==
    /\ pc = "done" /\ retval = TRUE
    /\ world # BoardWorld(SolvedBoard)
    /\ SolvablePuzzle(cfg.world0)
    /\ BoardSolved(world)

\* a branch attempt is abandoned while its wave holds a contradiction
AbandonedOnContradiction ==
    /\ AttemptFailed
    /\ HasCallback("contradiction")
    /\ HasContradiction(CurWave)
\* C19 as stated: every branch attempt abandoned because its wave reached a
\* contradiction has fired on_contradiction at least once since it was
\* opened, and a run that had a failed attempt and then succeeded ends with
\* an on_contradiction count of at least 1.
C19_ContradictionFires ==
    /\ [][AbandonedOnContradiction
            => counts.contradiction > Top.atOpen.counts.contradiction]_vars
    /\ []((Returned /\ retval = TRUE /\ HasCallback("contradiction") /\ counts.failed >= 1)
            => counts.contradiction >= 1)
\* C19 amended: an attempt abandoned after the queue drained with a
\* contradicted cell in its wave has fired on_contradiction since it was
\* opened; an attempt abandoned when a contradicted cell was popped has
\* fired it only if a nested attempt did.
C19_ContradictionFiresAfterDrain ==
    [][AbandonedOnContradiction =>
         /\ fired = "contradiction"
               => counts.contradiction > Top.atOpen.counts.contradiction
         /\ (fired # "contradiction" /\ counts.failed = Top.atOpen.counts.failed)
               => counts.contradiction = Top.atOpen.counts.contradiction
         /\ (fired = "contradiction") = QEmpty(queue)]_vars
\* an attempt that found its contradiction after the drain has been abandoned
C19_Witness ==
    /\ pc = "attempt"
    /\ HasCallback("contradiction")
    /\ counts.failed >= 1
    /\ counts.contradiction >= 1
\* a run with the callback has guessed wrong, then succeeded, and
\* on_contradiction never fired
C19_SilentFailure ==
    /\ Returned /\ retval = TRUE
    /\ HasCallback("contradiction")
    /\ counts.failed >= 1
    /\ counts.contradiction = 0

\* C20: whenever on_cell_collapsed, on_contradiction or on_branch has just
\* fired, every cell collapsed in the current wave holds in the world the
\* id-map value of its collapsed index.
C20_CallbackSeesRefreshedWorld ==
    (fired # "none" /\ Len(waves) >= 1) =>
        \A c \in Cells :
           IsCollapsed(CurWave, c) => world[c] = GetValue(GetVariableID(CurWave, c))
\* on_branch has just fired with a collapsed cell that was not pre-assigned
C20_Witness ==
    /\ fired = "branch"
    /\ Len(waves) >= 1
    /\ \E c \in Cells :
          /\ cfg.world0[c] = 0
          /\ IsCollapsed(CurWave, c)
          /\ world[c] = GetValue(GetVariableID(CurWave, c))

(***************************************************************************)
(* The stack allocator on its own (wfc_allocator.hpp), driven the way      *)
(* test_allocator.cpp drives it: allocations of any size, frame guards     *)
(* opened and released in reverse order of creation.  `frames` holds the   *)
(* open guards, `blocks` the blocks handed out since the last release and  *)
(* `last` the last allocator operation.                                    *)
(***************************************************************************)
MaxCapacity == 9
MaxAllocSize == 17
MaxAllocs == 2
MaxGuards == 2

NoBlock == [pool |-> 0, offset |-> 0, size |-> 0]
\* WFCStackAllocator(std::span<char>): the caller's buffer is the only pool
UserArena(capacity) == [pools |-> <<[size |-> capacity, used |-> 0]>>, cur |-> 1]
\* the pointer allocate returns: pool.ptr + pool.used of the pool that serves
AllocatePtr(a, rawSize) ==
    LET size == AlignUp(rawSize)
        hit == FirstFit(a, a.cur, size)
    IN IF hit # 0
       THEN [pool |-> hit, offset |-> a.pools[hit].used, size |-> size]
       ELSE [pool |-> Len(a.pools) + 1, offset |-> 0, size |-> size]
NoArenaOp ==
    [op |-> "none", size |-> 0, block |-> NoBlock, allocs |-> 0,
     before |-> UserArena(0), atOpen |-> UserArena(0)]
ArenaInit ==
    /\ cfg = [W |-> 1, H |-> 1, V |-> 1, rules |-> <<NoRule, NoRule>>,
              callbacks |-> {}, world0 |-> [i \in {0} |-> 0],
              seed |-> 0, iterations0 |-> 0, initial |-> "none",
              table |-> "functions", matrix |-> NoMatrix]
    /\ world = cfg.world0
    /\ waves = <<>>
    /\ frames = <<>>
    /\ queue = NewQueue(NumCells)
    /\ \E capacity \in 0 .. MaxCapacity :
          arena \in {NewArena(capacity), UserArena(capacity)}
    /\ selector = SeedOf(0)
    /\ iterations = 0
    /\ pc = "start"
    /\ calls = <<>>
    /\ retval = FALSE
    /\ build = "any"
    /\ fired = "none"
    /\ last = NoArenaOp
    /\ picked = NoPick
    /\ blocks = <<>>
    /\ counts = NoCounts
\* WFCStackAllocator::allocate(size)
AllocateCall ==
    /\ \E size \in 0 .. MaxAllocSize :
          /\ last.allocs < MaxAllocs
          /\ arena' = Allocate(arena, size)
          /\ blocks' = Append(blocks, AllocatePtr(arena, size))
          /\ last' = [NoArenaOp EXCEPT !.op = "allocate", !.size = size,
                                       !.block = AllocatePtr(arena, size),
                                       !.allocs = last.allocs + 1,
                                       !.before = arena]
    /\ UNCHANGED <<cfg, world, waves, frames, queue, selector, iterations,
                   pc, calls, retval, build, fired, picked, counts>>
\* WFCStackAllocator::createFrame(): a StackFrame guard is constructed
CreateFrameCall ==
    /\ Len(frames) < MaxGuards
    /\ frames' = Append(frames, [frame |-> CreateFrame(arena), atOpen |-> arena])
    /\ last' = [NoArenaOp EXCEPT !.op = "createFrame", !.allocs = last.allocs,
                                 !.before = arena]
    /\ UNCHANGED <<cfg, world, waves, queue, arena, selector, iterations,
                   pc, calls, retval, build, fired, picked, counts, blocks>>
\* StackFrame::~StackFrame() of the guard created last
StackFrameRelease ==
    /\ frames # <<>>
    /\ arena' = DestroyFrame(arena, frames[Len(frames)].frame)
    /\ frames' = SubSeq(frames, 1, Len(frames) - 1)
    /\ blocks' = <<>>
    /\ last' = [NoArenaOp EXCEPT !.op = "release", !.allocs = last.allocs,
                                 !.before = arena,
                                 !.atOpen = frames[Len(frames)].atOpen]
    /\ UNCHANGED <<cfg, world, waves, queue, selector, iterations,
                   pc, calls, retval, build, fired, picked, counts>>
ArenaNext ==
    \/ AllocateCall
    \/ CreateFrameCall
    \/ StackFrameRelease
ArenaSpec == ArenaInit /\ [][ArenaNext]_vars


\* C21: when a frame guard is destroyed (guards released in reverse order of
\* creation) the current pool index, the used counter of every pool and
\* getCapacity() are what they were when the guard was created, whatever was
\* allocated in between, new pools included; pools appended since keep their
\* place with nothing in use, and no step removes or resizes a pool.
C21_FrameRestoresArena ==
    /\ Len(arena.pools) >= 1
    /\ last.op = "release" =>
          /\ arena.cur = last.atOpen.cur
          /\ \A i \in 1 .. Len(last.atOpen.pools) :
                arena.pools[i].used = last.atOpen.pools[i].used
          /\ \A i \in 1 .. Len(arena.pools) :
                i > Len(last.atOpen.pools) => arena.pools[i].used = 0
          /\ arena.pools[arena.cur].size - arena.pools[arena.cur].used
                = last.atOpen.pools[last.atOpen.cur].size
                     - last.atOpen.pools[last.atOpen.cur].used
    /\ last.op # "none" =>
          /\ Len(arena.pools) >= Len(last.before.pools)
          /\ \A i \in 1 .. Len(last.before.pools) :
                arena.pools[i].size = last.before.pools[i].size
\* a guard is released after allocations that appended a pool and moved the
\* current pool, with another guard still open below it
C21_Witness ==
    /\ last.op = "release"
    /\ frames # <<>>
    /\ Len(last.before.pools) > Len(last.atOpen.pools)
    /\ last.before.cur > last.atOpen.cur
    /\ last.atOpen.pools[last.atOpen.cur].used > 0


\* the bytes of a block, as (pool, offset) pairs
BlockBytes(b) == {<<b.pool, o>> : o \in b.offset .. (b.offset + b.size - 1)}

\* C22: every allocate(size) reserves the smallest multiple of 8 that is at
\* least size, at an offset that is a multiple of 8 and wholly inside one
\* pool, leaving every other pool's used counter alone; and two blocks
\* allocated with no frame release between them share no byte.
C22_AlignedDisjointBlocks ==
    /\ last.op = "allocate" =>
          LET b == last.block
              old == IF b.pool <= Len(last.before.pools)
                     THEN last.before.pools[b.pool].used ELSE 0
              reserved == arena.pools[b.pool].used - old
          IN /\ reserved % ArenaAlign = 0
             /\ reserved >= last.size
             /\ reserved - ArenaAlign < last.size
             /\ b.size = reserved
             /\ b.pool \in 1 .. Len(arena.pools)
             /\ b.offset = old
             /\ b.offset % ArenaAlign = 0
             /\ b.offset + reserved <= arena.pools[b.pool].size
             /\ \A i \in 1 .. Len(last.before.pools) :
                   i # b.pool => arena.pools[i].used = last.before.pools[i].used
    /\ \A i, j \in 1 .. Len(blocks) :
          i < j => BlockBytes(blocks[i]) \cap BlockBytes(blocks[j]) = {}
\* a request that is not a multiple of 8 is served behind an earlier block
\* of the same pool
C22_Witness ==
    /\ last.op = "allocate"
    /\ last.size % ArenaAlign # 0
    /\ last.block.offset > 0
    /\ Len(blocks) = 2
    /\ blocks[1].size > 0
    /\ blocks[1].pool = last.block.pool


\* the smallest multiple of 8 that is at least size
Aligned(size) ==
    CHOOSE m \in 0 .. (size + ArenaAlign) :
       m % ArenaAlign = 0 /\ m >= size /\ m - ArenaAlign < size
\* no pool from the current one onward has room for need bytes
NoRoom(a, need) ==
    \A i \in a.cur .. Len(a.pools) : a.pools[i].size - a.pools[i].used < need

\* C23: when no pool from the current one onward has room for the aligned
\* request, allocate appends exactly one pool of max(2 x last pool size,
\* 2 x aligned size) bytes and serves the request from its start; otherwise
\* it appends none; and in every state every request size, 0 and sizes
\* larger than every pool included, gets a block that lies inside a pool.
C23_PoolExpansion ==
    /\ last.op = "allocate" =>
          LET old == last.before
              need == Aligned(last.size)
              lastSize == old.pools[Len(old.pools)].size
          IN IF NoRoom(old, need)
             THEN /\ Len(arena.pools) = Len(old.pools) + 1
                  /\ arena.pools[Len(arena.pools)].size
                        = (IF lastSize >= need THEN 2 * lastSize ELSE 2 * need)
                  /\ last.block.pool = Len(arena.pools)
                  /\ last.block.offset = 0
                  /\ arena.pools[Len(arena.pools)].used = need
                  /\ arena.cur = Len(arena.pools)
             ELSE Len(arena.pools) = Len(old.pools)
    /\ \A size \in 0 .. MaxAllocSize :
          LET after == Allocate(arena, size)
              b == AllocatePtr(arena, size)
          IN /\ b.pool \in 1 .. Len(after.pools)
             /\ b.size >= size
             /\ b.offset + b.size <= after.pools[b.pool].size
             /\ after.pools[b.pool].used = b.offset + b.size
\* a request larger than every existing pool is served from a pool appended
\* for it, sized by the request
C23_Witness ==
    /\ last.op = "allocate"
    /\ Len(arena.pools) = Len(last.before.pools) + 1
    /\ \A i \in 1 .. Len(last.before.pools) : last.before.pools[i].size < last.size
    /\ last.before.pools[Len(last.before.pools)].size > 0
    /\ arena.pools[Len(arena.pools)].size = 2 * last.block.size
    /\ last.block.pool = Len(arena.pools)


\* C24: every cell id popped during propagation is, at the moment it is
\* popped, either contradicted or collapsed, whatever the rule table is made
\* of (Exclude, Only, Include).
C24_PoppedCollapsedOrContradicted ==
    (pc = "propagate" /\ ~QEmpty(queue)) =>
       \/ IsContradicted(CurWave, QFrontValue(queue))
       \/ IsCollapsed(CurWave, QFrontValue(queue))
\* the same for the tables made of Exclude and Only alone
C24_PoppedCollapsedOrContradictedNoInclude ==
    (pc = "propagate" /\ ~QEmpty(queue) /\ ~UsesInclude(cfg.rules)) =>
       \/ IsContradicted(CurWave, QFrontValue(queue))
       \/ IsCollapsed(CurWave, QFrontValue(queue))


\* the wave an operation starts from: the freshly constructed one for
\* seeding, else the wave being solved (which a branch observation copies)
WaveBefore == IF waves = <<>> THEN NewWave(NumCells, cfg.V) ELSE CurWave
\* the cell ids a step pushes
PushedCells == {queue'.container[i] : i \in queue.back .. (queue'.back - 1)}

\* C25: a cell id is pushed only at a moment when that cell's domain goes
\* from at least 2 possible values to exactly 1, in seeding, in constrainer
\* operations and in branch observations alike.
C25_PushOnlyOnCollapse ==
    [][queue'.back > queue.back =>
         \A c \in PushedCells :
            /\ Entropy(WaveBefore, c) >= 2
            /\ Entropy(waves'[Len(waves')], c) = 1]_vars
\* C25 as the code has it: a constrainer operation pushes a cell only when
\* its domain goes from at least 2 values to exactly 1; seeding and a branch
\* observation push the cell they collapse, whose domain is exactly 1
\* afterwards and held that value before (at least 1 value, not at least 2).
C25_PushOnCollapseOrCollapsed ==
    [][queue'.back > queue.back =>
         \A c \in PushedCells :
            /\ Entropy(waves'[Len(waves')], c) = 1
            /\ waves'[Len(waves')][c] \subseteq WaveBefore[c]
            /\ Entropy(WaveBefore, c) >= (IF ConstrainerStep THEN 2 ELSE 1)]_vars
\* the attempt that follows a failed attempt on a cell of entropy 2 has just
\* observed and pushed the cell, whose domain in the parent wave was already
\* down to the one value left
C25_Witness ==
    /\ pc = "loop"
    /\ picked # NoPick
    /\ Len(waves) >= 2
    /\ build = "any"
    /\ Entropy(waves[Len(waves) - 1], Top.cell) = 1
    /\ queue.back > 0
    /\ queue.container[queue.back - 1] = Top.cell
    /\ IsCollapsed(CurWave, Top.cell)


\* C26: a constrainer operation that empties a cell's domain does not push
\* that cell (it leaves the queue as it was), and whenever the queue has
\* drained on a wave that holds an empty domain, the next step of RunLoop is
\* its return of failure: no branch is opened on that wave, and the wave and
\* the queue are left alone.
C26_ContradictionNotQueued ==
    [][/\ ConstrainerStep =>
             \A c \in Cells :
                (CurWave[c] # {} /\ waves'[Len(waves')][c] = {}) => queue' = queue
       /\ (pc = "propagate" /\ QEmpty(queue) /\ \E c \in Cells : CurWave[c] = {}) =>
             /\ pc' = "ret"
             /\ retval' = FALSE
             /\ UNCHANGED <<waves, frames, queue, selector>>]_vars
\* inside a branch RunLoop has just failed on a drained queue, over a wave in
\* which a rule emptied a cell other than the first, which never entered the
\* queue
C26_Witness ==
    /\ pc = "ret"
    /\ fired = "contradiction"
    /\ ~retval
    /\ Len(waves) >= 2
    /\ QEmpty(queue)
    /\ CurWave[0] # {}
    /\ \E c \in Cells : CurWave[c] = {} /\ ~QHas(queue, c)


(***************************************************************************)
(* One call of Branch on its own (part_010 521-569), for any selector      *)
(* whose picks lie in 0 .. availableValues - 1.  The nested RunLoop works   *)
(* on the copy newWave and either fails or succeeds; the parent wave is    *)
(* touched by Branch alone.  The frame keeps, next to the locals of        *)
(* Branch, the chosen cell's domain at entry and the values tried so far.  *)
(***************************************************************************)
MaxBranchCells == 1
MaxBranchVars == 4

\* the waves Branch is called on: RunLoop has found no empty domain and at
\* least one cell that is not collapsed
BranchWaves(N, V) ==
    {w \in [0 .. (N - 1) -> SUBSET (0 .. (V - 1)) \ {{}}] : MinEntropyCell(w) # -1}
BranchInit ==
    /\ \E N \in 1 .. MaxBranchCells, V \in 2 .. MaxBranchVars :
          /\ cfg = [W |-> N, H |-> 1, V |-> V, rules |-> <<NoRule, NoRule>>,
                    callbacks |-> {}, world0 |-> [i \in 0 .. (N - 1) |-> 0],
                    seed |-> 0, iterations0 |-> 0, initial |-> "none",
                    table |-> "functions", matrix |-> NoMatrix]
          /\ \E w \in BranchWaves(N, V) :
                /\ waves = <<w>>
                /\ frames = <<[cell |-> MinEntropyCell(w),
                               possibleValues |-> PossibleValues(V, w[MinEntropyCell(w)]),
                               availableValues |-> Entropy(w, MinEntropyCell(w)),
                               randomIndex |-> 0, selectedValue |-> 0,
                               domain |-> w[MinEntropyCell(w)],
                               tried |-> <<>>]>>
    /\ world = cfg.world0
    /\ queue = NewQueue(NumCells)
    /\ arena = NewArena(DefaultPoolSize)
    /\ selector = SeedOf(0)
    /\ iterations = 0
    /\ pc = "attempt"
    /\ calls = <<>>
    /\ retval = FALSE
    /\ build = "any"
    /\ fired = "none"
    /\ last = NoCall
    /\ picked = NoPick
    /\ blocks = <<>>
    /\ counts = NoCounts
\* one round of the while loop whose nested RunLoop fails: the value is
\* removed from the wave and swapped out of the list
BranchRoundFails ==
    /\ pc = "attempt"
    /\ Top.availableValues > 0
    /\ \E randomIndex \in 0 .. (Top.availableValues - 1) :
          LET selectedValue == Top.possibleValues[randomIndex + 1]
          IN /\ picked' = Picked("any", Top.availableValues, randomIndex)
             /\ waves' = <<RemoveFailed(cfg.V, CurWave, Top.cell, selectedValue)>>
             /\ frames' = <<[Top EXCEPT
                   !.randomIndex = randomIndex,
                   !.selectedValue = selectedValue,
                   !.tried = Append(@, selectedValue),
                   !.possibleValues = SwapRemove(@, randomIndex, Top.availableValues),
                   !.availableValues = @ - 1]>>
    /\ UNCHANGED <<cfg, world, queue, arena, selector, iterations,
                   pc, calls, retval, build, fired, last, counts, blocks>>
\* one round whose nested RunLoop succeeds: wave = newWave, return true
BranchRoundSucceeds ==
    /\ pc = "attempt"
    /\ Top.availableValues > 0
    /\ \E randomIndex \in 0 .. (Top.availableValues - 1) :
          LET selectedValue == Top.possibleValues[randomIndex + 1]
          IN /\ picked' = Picked("any", Top.availableValues, randomIndex)
             /\ waves' = <<CollapseCell(cfg.V, CurWave, Top.cell, selectedValue)>>
             /\ frames' = <<[Top EXCEPT
                   !.randomIndex = randomIndex,
                   !.selectedValue = selectedValue,
                   !.tried = Append(@, selectedValue)]>>
    /\ pc' = "done"
    /\ retval' = TRUE
    /\ UNCHANGED <<cfg, world, queue, arena, selector, iterations,
                   calls, build, fired, last, counts, blocks>>
\* the while loop ends with no value left: return false
BranchReturnsFalse ==
    /\ pc = "attempt"
    /\ Top.availableValues = 0
    /\ pc' = "done"
    /\ retval' = FALSE
    /\ UNCHANGED <<cfg, world, waves, frames, queue, arena, selector, iterations,
                   calls, build, fired, last, picked, counts, blocks>>
BranchNext ==
    \/ BranchRoundFails
    \/ BranchRoundSucceeds
    \/ BranchReturnsFalse
BranchSpec == BranchInit /\ [][BranchNext]_vars

\* C27: within one Branch call each value index of the chosen cell's domain
\* is tried at most once and only values of that domain are tried, and when
\* Branch returns failure every one of them has been tried and none is left
\* in the chosen cell of the parent wave, whatever picks in [0, e) the
\* selector makes.
C27_EachValueTriedOnce ==
    LET f == frames[1]
    IN /\ \A i, j \in 1 .. Len(f.tried) : i # j => f.tried[i] # f.tried[j]
       /\ \A i \in 1 .. Len(f.tried) : f.tried[i] \in f.domain
       /\ (pc = "done" /\ ~retval) =>
             /\ {f.tried[i] : i \in 1 .. Len(f.tried)} = f.domain
             /\ waves[1][f.cell] \cap f.domain = {}
\* Branch has returned failure on a cell of four values, tried in an order
\* that is neither ascending nor descending
C27_Witness ==
    /\ pc = "done"
    /\ ~retval
    /\ Len(frames[1].tried) = MaxBranchVars
    /\ frames[1].tried[1] > frames[1].tried[2]
    /\ frames[1].tried[2] < frames[1].tried[3]


\* C28: Branch picks the cell whose entropy is the minimum among the cells
\* of entropy > 1 and, among those, the lowest cell id; it lists that cell's
\* possible value indices in ascending bit order, as many as the entropy.
C28_MinEntropyLowestId ==
    [][(pc = "propagate" /\ pc' = "attempt") =>
         LET f == frames'[Len(frames')]
             w == CurWave
             e == Cardinality(w[f.cell])
         IN /\ e > 1
            /\ \A j \in DOMAIN w :
                  Cardinality(w[j]) > 1 =>
                     \/ e < Cardinality(w[j])
                     \/ e = Cardinality(w[j]) /\ f.cell <= j
            /\ f.availableValues = e
            /\ {f.possibleValues[i] : i \in 1 .. e} = w[f.cell]
            /\ \A i, k \in 1 .. e : i < k => f.possibleValues[i] < f.possibleValues[k]]_vars
\* Branch has just picked a cell, passing over a cell of lower id and higher
\* entropy, with a cell of higher id and the same entropy left for later
C28_Witness ==
    /\ pc = "attempt"
    /\ fired = "branch"
    /\ Top.availableValues >= 2
    /\ Top.availableValues = Cardinality(CurWave[Top.cell])
    /\ \E j \in Cells : j < Top.cell /\ Cardinality(CurWave[j]) > Top.availableValues
    /\ \E j \in Cells : j > Top.cell /\ Cardinality(CurWave[j]) = Top.availableValues


\* C29: when Branch returns failure the main loop resumes with the queue
\* empty and the chosen cell's domain empty in its wave; and from a loop
\* position with the queue empty over a wave holding an empty domain the
\* main loop can only go on to return failure, with no rule invoked and no
\* Branch opened on that wave.
C29_BranchFailureEndsLoop ==
    [][/\ (pc = "attempt" /\ pc' = "loop" /\ Len(frames') < Len(frames)) =>
             /\ QEmpty(queue')
             /\ waves' = waves
             /\ waves'[Len(waves')][Top.cell] = {}
       /\ (pc \in {"loop", "propagate"} /\ QEmpty(queue)
              /\ \E c \in Cells : CurWave[c] = {}) =>
             /\ UNCHANGED <<waves, frames, queue, calls, selector>>
             /\ \/ pc = "loop" /\ pc' = "propagate"
                \/ pc' = "ret" /\ retval' = FALSE]_vars
\* the main loop has resumed after Branch failed on both values of a cell
C29_Witness ==
    /\ pc = "loop"
    /\ QEmpty(queue)
    /\ counts.failed >= 2
    /\ \E c \in Cells : CurWave[c] = {}
    /\ picked = NoPick


\* the cells of world wld whose value is an id-map value
SeededCells(wld) == {c \in DOMAIN wld : \E j \in 0 .. (cfg.V - 1) : wld[c] = GetValue(j)}
\* C30: after seeding, every cell whose world value (as the caller passed
\* it) equals an id-map value v has the domain {index_of(v)}, every other
\* cell has the full domain, and the queue holds exactly the seeded cell ids
\* in ascending order.
C30_SeedingResult ==
    [][pc = "start" =>
         LET w == waves'[1]
             seeded == SeededCells(world)
         IN /\ \A c \in seeded :
                  \E j \in 0 .. (cfg.V - 1) : world[c] = GetValue(j) /\ w[c] = {j}
            /\ \A c \in Cells \ seeded : w[c] = 0 .. (cfg.V - 1)
            /\ queue'.front = 0
            /\ queue'.back = Cardinality(seeded)
            /\ \A i \in 0 .. (queue'.back - 1) : queue'.container[i] \in seeded
            /\ \A i, k \in 0 .. (queue'.back - 1) :
                  i < k => queue'.container[i] < queue'.container[k]]_vars

\* the same when the id-map has two or more values or no cell-collapsed
\* callback is set
C30_SeedingResultPlain ==
    [][(pc = "start" /\ (cfg.V >= 2 \/ ~HasCallback("collapsed"))) =>
         LET w == waves'[1]
             seeded == SeededCells(world)
         IN /\ \A c \in seeded :
                  \E j \in 0 .. (cfg.V - 1) : world[c] = GetValue(j) /\ w[c] = {j}
            /\ \A c \in Cells \ seeded : w[c] = 0 .. (cfg.V - 1)
            /\ queue'.front = 0
            /\ queue'.back = Cardinality(seeded)
            /\ \A i \in 0 .. (queue'.back - 1) : queue'.container[i] \in seeded
            /\ \A i, k \in 0 .. (queue'.back - 1) :
                  i < k => queue'.container[i] < queue'.container[k]]_vars


\* C31: in every reachable state of a run whose rules use only Exclude and
\* Only, 0 <= front <= back <= capacity (the number of cells); no push has
\* met a full queue or a cell id already stored below back (neither assert
\* of push has failed, in a build with or without asserts), the slots below
\* back hold pairwise different cell ids, and the front a pop is about to
\* read lies below back.
C31_QueueWithinBounds ==
    ~UsesInclude(cfg.rules) =>
       /\ 0 <= queue.front
       /\ queue.front <= queue.back
       /\ queue.back <= NumCells
       /\ QSize(queue) = NumCells
       /\ pc \notin {"thrown", "undefined"}
       /\ build = "any"
       /\ \A i, j \in 0 .. (queue.back - 1) :
             i # j => queue.container[i] # queue.container[j]
\* inside a second attempt on a cell, the queue is full: every cell id is
\* stored once and the last slot was reused after the first attempt failed
C31_Witness ==
    /\ ~UsesInclude(cfg.rules)
    /\ queue.back = NumCells
    /\ NumCells >= 2
    /\ Len(waves) >= 2
    /\ counts.failed >= 1
    /\ pc = "propagate"


(***************************************************************************)
(* The wave's storage on its own (wfc_wave.hpp over the BitContainer of    *)
(* part_011): `waves` holds the one container, slot by slot, each slot a   *)
(* set of bit positions.  With at most 4 values several domains are packed *)
(* into one byte.                                                          *)
(***************************************************************************)
MaxWaveCells == 2
IntBits == 32
WordBits == 64
ByteBits == 8

\* OptimalStorageType<Bits>::bits_needed, up to one word
BitsNeeded(Bits) ==
    IF Bits <= 1 THEN 1
    ELSE IF Bits <= 2 THEN 2
    ELSE IF Bits <= SubByteBits THEN SubByteBits
    ELSE IF Bits <= ByteBits THEN ByteBits
    ELSE IF Bits <= 2 * ByteBits THEN 2 * ByteBits
    ELSE IF Bits <= IntBits THEN IntBits
    ELSE WordBits
\* the width of OptimalStorageType<Bits>::type
StorageTypeBits(Bits) == IF BitsNeeded(Bits) <= ByteBits THEN ByteBits ELSE BitsNeeded(Bits)
ElementsPerByte(Bits) == StorageTypeBits(Bits) \div BitsNeeded(Bits)
\* an int converted to the unsigned type of the given width
IntToUnsigned(bits, width) ==
    (IF (IntBits - 1) \in bits THEN bits \cup (IntBits .. (WordBits - 1)) ELSE bits)
        \cap (0 .. (width - 1))
\* the int values (1 << variableAmount) - 1 can be.  Up to 30 the shift and
\* the subtraction are exact.  At 31 the subtraction overflows int and wraps.
\* From 32 on the shift count is not less than the width of int, which is
\* undefined: a shifter that takes the count modulo 32 gives
\* (1 << (variableAmount % 32)) - 1, one that shifts the bit out, or a
\* folded constant 0, gives -1.
FullMaskOutcomes(variableAmount) ==
    IF variableAmount < IntBits
    THEN {0 .. (variableAmount - 1)}
    ELSE {0 .. ((variableAmount % IntBits) - 1), 0 .. (IntBits - 1)}
\* const operator[]: the domain stored at index
ContainerGet(c, Bits, index) ==
    IF IsSubByte(Bits)
    THEN LET shift == BitsNeeded(Bits) * (index % ElementsPerByte(Bits))
         IN {b - shift : b \in {x \in c[index \div ElementsPerByte(Bits)] : x >= shift}}
               \cap (0 .. (Bits - 1))
    ELSE c[index]
\* SetValue whose Clear wipes the whole byte instead of the element's bits
ContainerSet_ClearsByte(c, Bits, index, val) ==
    IF IsSubByte(Bits)
    THEN LET shift == BitsNeeded(Bits) * (index % ElementsPerByte(Bits))
         IN [c EXCEPT ![index \div ElementsPerByte(Bits)] =
                {shift + b : b \in val \cap (0 .. (Bits - 1))} \cap (0 .. (ByteBits - 1))]
    ELSE [c EXCEPT ![index] = val \cap (0 .. (StorageTypeBits(Bits) - 1))]
\* operator[] = val: SubTypeAccess::SetValue below a byte, the slot itself above
ContainerSet(c, Bits, index, val) ==
    IF IsSubByte(Bits)
    THEN LET shift == BitsNeeded(Bits) * (index % ElementsPerByte(Bits))
             cleared == c[index \div ElementsPerByte(Bits)]
                           \ {shift + m : m \in 0 .. (Bits - 1)}
         IN [c EXCEPT ![index \div ElementsPerByte(Bits)] =
                (cleared \cup {shift + b : b \in val \cap (0 .. (Bits - 1))})
                    \cap (0 .. (ByteBits - 1))]
    ELSE [c EXCEPT ![index] = val \cap (0 .. (StorageTypeBits(Bits) - 1))]
RECURSIVE ContainerFill(_, _, _, _)
\* the constructor's loop from index i on
ContainerFill(c, Bits, i, val) ==
    IF i \notin DOMAIN c THEN c
    ELSE ContainerFill(ContainerSet(c, Bits, i, val), Bits, i + 1, val)
NoWaveOp == [kind |-> "none", cell |-> 0]
WaveInit ==
    /\ \E N \in 1 .. MaxWaveCells, V \in 1 .. WordBits :
          cfg = [W |-> N, H |-> 1, V |-> V, rules |-> <<NoRule, NoRule>>,
                 callbacks |-> {}, world0 |-> [i \in 0 .. (N - 1) |-> 0],
                 seed |-> 0, iterations0 |-> 0, initial |-> "none",
                 table |-> "functions", matrix |-> NoMatrix]
    /\ world = cfg.world0
    /\ waves = <<>>
    /\ frames = <<>>
    /\ queue = NewQueue(NumCells)
    /\ arena = NewArena(DefaultPoolSize)
    /\ selector = SeedOf(0)
    /\ iterations = 0
    /\ pc = "start"
    /\ calls = <<>>
    /\ retval = FALSE
    /\ build = "any"
    /\ fired = "none"
    /\ last = NoWaveOp
    /\ picked = NoPick
    /\ blocks = <<>>
    /\ counts = NoCounts
\* Wave::Wave(size, variableAmount, allocator)
WaveCtor ==
    /\ pc = "start"
    /\ \E val \in FullMaskOutcomes(cfg.V) :
          waves' = <<ContainerFill([i \in 0 .. (NumCells - 1) |-> {}], cfg.V, 0,
                                   IntToUnsigned(val, StorageTypeBits(cfg.V)))>>
    /\ pc' = "built"
    /\ last' = [NoWaveOp EXCEPT !.kind = "ctor"]
    /\ UNCHANGED <<cfg, world, frames, queue, arena, selector, iterations,
                   calls, retval, build, fired, picked, counts, blocks>>
\* Wave::Collapse(index, mask) on a packed wave, for any mask of the element type
WaveCollapseCall ==
    /\ pc = "built"
    /\ IsSubByte(cfg.V)
    /\ \E index \in Cells, mask \in SUBSET (0 .. cfg.V) :
          /\ waves' = <<ContainerSet(waves[1], cfg.V, index,
                                     ContainerGet(waves[1], cfg.V, index) \cap mask)>>
          /\ last' = [kind |-> "Collapse", cell |-> index]
    /\ UNCHANGED <<cfg, world, frames, queue, arena, selector, iterations,
                   pc, calls, retval, build, fired, picked, counts, blocks>>
\* Wave::Enable(index, mask) on a packed wave, for any mask of the element type
WaveEnableCall ==
    /\ pc = "built"
    /\ IsSubByte(cfg.V)
    /\ \E index \in Cells, mask \in SUBSET (0 .. cfg.V) :
          /\ waves' = <<ContainerSet(waves[1], cfg.V, index,
                                     ContainerGet(waves[1], cfg.V, index) \cup mask)>>
          /\ last' = [kind |-> "Enable", cell |-> index]
    /\ UNCHANGED <<cfg, world, frames, queue, arena, selector, iterations,
                   pc, calls, retval, build, fired, picked, counts, blocks>>
WaveNext ==
    \/ WaveCtor
    \/ WaveCollapseCall
    \/ WaveEnableCall
WaveSpec == WaveInit /\ [][WaveNext]_vars

\* C32: for every id-map size V from 1 to 64, every domain of a freshly
\* built wave has exactly the bits 0 .. V-1 set.
C32_FreshWaveIsFull ==
    (pc = "built" /\ last.kind = "ctor") =>
       \A i \in Cells : ContainerGet(waves[1], cfg.V, i) = 0 .. (cfg.V - 1)
\* the same for the sizes whose full mask fits an int: V from 1 to 31
C32_FreshWaveIsFullBelowIntWidth ==
    (pc = "built" /\ last.kind = "ctor" /\ cfg.V < IntBits) =>
       \A i \in Cells : ContainerGet(waves[1], cfg.V, i) = 0 .. (cfg.V - 1)


\* C33: in every reachable wave every domain is a subset of the full mask:
\* no bit at a position >= V is set, whatever operations were applied.
C33_NoHighBits ==
    pc = "built" =>
       \A i \in Cells : ContainerGet(waves[1], cfg.V, i) \subseteq 0 .. (cfg.V - 1)
\* the same for the id-map sizes whose full mask fits an int
C33_NoHighBitsBelowIntWidth ==
    (pc = "built" /\ cfg.V < IntBits) =>
       \A i \in Cells : ContainerGet(waves[1], cfg.V, i) \subseteq 0 .. (cfg.V - 1)
\* the same in the solver, whose id-maps have few values: every domain of
\* every wave on the stack lies within 0 .. V-1
C33_NoHighBitsInRun ==
    \A k \in 1 .. Len(waves) : \A c \in DOMAIN waves[k] : waves[k][c] \subseteq 0 .. (cfg.V - 1)


(***************************************************************************)
(* Rule-table composition (Builder).  The builder is a chain of types; its *)
(* state is the id-map size, the selected values and the rule table, kept  *)
(* in last.  A table entry is the name of a rule type, the no-op rule      *)
(* EmptyConstrainerFunction, or the element void* of the default table.    *)
(* The ids are defined once, as the range IdStart .. IdStart + V - 1.      *)
(***************************************************************************)
MaxBuilderVars == 3
BuilderRules == {"f", "g"}
EmptyFunctionT == "EmptyConstrainerFunction"
DefaultEntry == "void*"
DefaultTable == <<DefaultEntry>>
BuilderValues == IdStart .. (IdStart + MaxBuilderVars - 1)
\* MergedConstrainerFunctionMap: entry I is the new rule when value I is
\* selected, else entry min(I, size - 1) of the old table when I < size,
\* else the no-op rule
MergedConstrainerElementSelector(I, old, new, selected) ==
    IF GetValue(I) \in selected
    THEN new
    ELSE IF I < Len(old)
         THEN old[Min({I, Len(old) - 1}) + 1]
         ELSE EmptyFunctionT
MergedConstrainerFunctionMap(V, old, new, selected) ==
    [k \in 1 .. V |-> MergedConstrainerElementSelector(k - 1, old, new, selected)]
NoBuilder ==
    [V |-> 0, table |-> DefaultTable, selected |-> {}, composed |-> FALSE,
     latest |-> [k \in 0 .. (MaxBuilderVars - 1) |-> EmptyFunctionT],
     chosen |-> {}, asked |-> FALSE, size |-> 0, mask |-> {},
     result |-> {}]
BuilderInit ==
    /\ cfg = [W |-> 1, H |-> 1, V |-> 1, rules |-> <<NoRule, NoRule>>,
              callbacks |-> {}, world0 |-> [i \in 0 .. 0 |-> 0],
              seed |-> 0, iterations0 |-> 0, initial |-> "none",
              table |-> "functions", matrix |-> NoMatrix]
    /\ world = cfg.world0
    /\ waves = <<>>
    /\ frames = <<>>
    /\ queue = NewQueue(NumCells)
    /\ arena = NewArena(DefaultPoolSize)
    /\ selector = SeedOf(0)
    /\ iterations = 0
    /\ pc = "builder"
    /\ calls = <<>>
    /\ retval = FALSE
    /\ build = "any"
    /\ fired = "none"
    /\ last = NoBuilder
    /\ picked = NoPick
    /\ blocks = <<>>
    /\ counts = NoCounts
BuilderUnchanged ==
    UNCHANGED <<cfg, world, waves, frames, queue, arena, selector, iterations,
                pc, calls, retval, build, fired, picked, counts, blocks>>
\* Builder::DefineRange<IdStart, IdStart + V>: the id-map, all of it selected
DefineRange ==
    /\ pc = "builder"
    /\ last.V = 0
    /\ \E V \in 1 .. MaxBuilderVars :
          last' = [last EXCEPT !.V = V,
                               !.selected = IdStart .. (IdStart + V - 1)]
    /\ BuilderUnchanged
\* Builder::Variable<Values...>: the values the next Constrain is for
Variable ==
    /\ pc = "builder"
    /\ last.V > 0
    /\ \E S \in (SUBSET BuilderValues) \ {{}} :
          last' = [last EXCEPT !.selected = S]
    /\ BuilderUnchanged
\* Builder::Constrain<F>: F for the selected values
Constrain ==
    /\ pc = "builder"
    /\ last.V > 0
    /\ \E f \in BuilderRules :
          last' = [last EXCEPT
                     !.table = MergedConstrainerFunctionMap(last.V, last.table, f, last.selected),
                     !.composed = TRUE,
                     !.latest = [k \in 0 .. (MaxBuilderVars - 1) |->
                                   IF GetValue(k) \in last.selected THEN f ELSE last.latest[k]],
                     !.chosen = last.chosen \cup {k \in 0 .. (MaxBuilderVars - 1) :
                                                    GetValue(k) \in last.selected}]
    /\ BuilderUnchanged
\* Builder::ConstrainAll<F>: F for every value of the id-map
ConstrainAll ==
    /\ pc = "builder"
    /\ last.V > 0
    /\ \E f \in BuilderRules :
          last' = [last EXCEPT
                     !.table = MergedConstrainerFunctionMap(last.V, last.table, f,
                                                           IdStart .. (IdStart + last.V - 1)),
                     !.composed = TRUE,
                     !.latest = [k \in 0 .. (MaxBuilderVars - 1) |->
                                   IF k < last.V THEN f ELSE last.latest[k]],
                     !.chosen = last.chosen \cup (0 .. (last.V - 1))]
    /\ BuilderUnchanged
\* GetPossibleValues<ConstrainerFunctionMapT>(wave, cellId): the values of
\* the indices below the size of the rule table whose bit is in the mask
GetPossibleValues(tableSize, mask) ==
    {GetValue(i) : i \in {j \in 0 .. (tableSize - 1) : j \in mask}}
\* a call for a cell whose domain is any mask over the id-map
GetPossibleValuesCall ==
    /\ pc = "builder"
    /\ last.V > 0
    /\ \E mask \in SUBSET (0 .. (last.V - 1)) :
          last' = [last EXCEPT !.asked = TRUE, !.size = Len(last.table), !.mask = mask,
                               !.result = GetPossibleValues(Len(last.table), mask)]
    /\ BuilderUnchanged
BuilderNext ==
    \/ DefineRange
    \/ Variable
    \/ Constrain
    \/ ConstrainAll
    \/ GetPossibleValuesCall
BuilderSpec == BuilderInit /\ [][BuilderNext]_vars

\* C34: in a table composed with Constrain / ConstrainAll from the default
\* table, the entry of an index no step selected is the no-op rule and the
\* entry of a selected index is the rule of the latest step that selected it.
C34_ComposedTable ==
    (pc = "builder" /\ last.composed) =>
       /\ Len(last.table) = last.V
       /\ \A k \in 0 .. (last.V - 1) :
             last.table[k + 1] = (IF k \in last.chosen THEN last.latest[k] ELSE EmptyFunctionT)
\* the same for every index but the first, and for the first once selected
C34_ComposedTableAboveDefault ==
    (pc = "builder" /\ last.composed) =>
       /\ Len(last.table) = last.V
       /\ \A k \in 0 .. (last.V - 1) :
             (k > 0 \/ k \in last.chosen) =>
                last.table[k + 1] = (IF k \in last.chosen THEN last.latest[k] ELSE EmptyFunctionT)


\* C36: GetPossibleValues returns exactly the id-map values whose bits are
\* set in the cell's domain, for every id-map size and every rule table,
\* the table in which no rule was configured included.
C36_PossibleValuesOfMask ==
    (pc = "builder" /\ last.asked) =>
       last.result = {GetValue(i) : i \in last.mask}
\* the same for a table with one entry per value of the id-map
C36_PossibleValuesOfMaskComposed ==
    (pc = "builder" /\ last.asked /\ last.size = last.V) =>
       last.result = {GetValue(i) : i \in last.mask}


\* the cell whose rule is running: the id Propagate popped last
SourceCell == queue.container[queue.front - 1]
\* the next constrainer call is an Exclude or Only on the rule's own cell
SelfCall ==
    /\ pc = "rule"
    /\ Head(calls).kind # "Include"
    /\ Head(calls).cell = SourceCell

\* C35: an Exclude or Only that a rule applies to its own source cell is
\* applied like on any other cell (the domain is intersected with the
\* mask), the cell is not pushed again and no queue precondition is violated.
C35_SelfTargetApplied ==
    [][SelfCall =>
         /\ pc' \in {"rule", "propagate"}
         /\ build' = build
         /\ queue' = queue
         /\ waves'[Len(waves')] =
               [CurWave EXCEPT ![SourceCell] = @ \cap Head(calls).mask]]_vars
\* the same in the runs whose popped cells are collapsed (rule tables of
\* Exclude and Only)
C35_SelfTargetAppliedNoInclude ==
    [][(SelfCall /\ ~UsesInclude(cfg.rules)) =>
         /\ pc' \in {"rule", "propagate"}
         /\ build' = build
         /\ queue' = queue
         /\ waves'[Len(waves')] =
               [CurWave EXCEPT ![SourceCell] = @ \cap Head(calls).mask]]_vars
\* a self-targeted Exclude or Only has just been applied
C35_Witness ==
    /\ pc \in {"rule", "propagate"}
    /\ build = "any"
    /\ ~UsesInclude(cfg.rules)
    /\ last.kind \in {"Exclude", "Only"}
    /\ queue.front > 0
    /\ last.cell = queue.container[queue.front - 1]
    /\ last.before \cap last.mask # last.before


\* C37: in every reachable arena state (guards released in reverse order)
\* every pool with an index greater than the current pool index has
\* used = 0, and every pool's used counter is a multiple of 8 that does not
\* exceed the pool's size.
C37_PoolCounters ==
    \A i \in 1 .. Len(arena.pools) :
       /\ i > arena.cur => arena.pools[i].used = 0
       /\ arena.pools[i].used % ArenaAlign = 0
       /\ arena.pools[i].used <= arena.pools[i].size
\* a guard has just been released over a pool that was added and used since
\* it was created; another pool still holds a block
C37_Witness ==
    /\ pc = "start"
    /\ last.op = "release"
    /\ Len(arena.pools) > arena.cur
    /\ last.before.cur > arena.cur
    /\ last.before.pools[last.before.cur].used > 0
    /\ arena.pools[arena.cur].used > 0


\* C38: collapse(cell, mask) and enable(cell, mask) change the domain of the
\* named cell only (collapse removes values from it, enable adds values to
\* it); every other cell's domain is unchanged, a cell packed into the same
\* storage byte (id-maps of at most 4 values) included.
C38_OnlyNamedCellChanges ==
    [][(pc = "built" /\ pc' = "built") =>
         /\ \A i \in Cells \ {last'.cell} :
               ContainerGet(waves'[1], cfg.V, i) = ContainerGet(waves[1], cfg.V, i)
         /\ last'.kind = "Collapse" =>
               ContainerGet(waves'[1], cfg.V, last'.cell)
                   \subseteq ContainerGet(waves[1], cfg.V, last'.cell)
         /\ last'.kind = "Enable" =>
               ContainerGet(waves[1], cfg.V, last'.cell)
                   \subseteq ContainerGet(waves'[1], cfg.V, last'.cell)]_vars
\* a collapse has emptied one cell of a packed wave of two cells while the
\* cell that shares its byte still holds every value
C38_Witness ==
    /\ pc = "built"
    /\ last.kind = "Collapse"
    /\ IsSubByte(cfg.V)
    /\ NumCells = 2
    /\ ContainerGet(waves[1], cfg.V, last.cell) = {}
    /\ ContainerGet(waves[1], cfg.V, 1 - last.cell) = 0 .. (cfg.V - 1)


\* the waves a step can have handed to PopulateWorld: the wave being solved
\* after the step, or the copy a branch attempt has just collapsed
PassedWaves ==
    (IF waves' = <<>> THEN {} ELSE {waves'[Len(waves')]}) \cup
    (IF pc = "attempt" /\ frames # <<>>
     THEN {CollapseCell(cfg.V, CurWave, Top.cell, v) : v \in 0 .. (cfg.V - 1)}
     ELSE {})

\* C39: PopulateWorld changes world cell i only if cell i is collapsed in the
\* wave passed to it, and then sets it to that cell's collapsed value;
\* backtracking never restores the world, so a value written during an
\* attempt that is later abandoned stays until a later wave in which that
\* cell is collapsed is written.
C39_WorldWrittenFromCollapsedCells ==
    [][build' # "undefined" =>
         /\ world' # world =>
               \E w \in PassedWaves :
                  \A c \in Cells :
                     world'[c] = (IF IsCollapsed(w, c)
                                  THEN GetValue(GetVariableID(w, c))
                                  ELSE world[c])
         /\ FailedAttemptStep => world' = world
         /\ (pc = "attempt" /\ pc' = "loop" /\ Len(frames') < Len(frames)) => world' = world]_vars
\* after an abandoned attempt the world still holds a value for a cell that
\* is open again in the wave being solved and was not given by the caller
C39_Witness ==
    /\ pc = "attempt"
    /\ build = "any"
    /\ counts.failed >= 1
    /\ HasCallback("collapsed")
    /\ \E c \in Cells :
          /\ Entropy(CurWave, c) >= 2
          /\ cfg.world0[c] = 0
          /\ world[c] \in IdValues


(***************************************************************************)
(* LargeInteger<Size>: Size words of 64 bits, m_data[0] the lowest.  A     *)
(* word is the set of its set bit positions; `last` holds the operand, the *)
(* shift and the result of one call of operator<< (with OtherSize = Size). *)
(***************************************************************************)
MaxWords == 2
\* the bit positions the operand's words are drawn from
WordSampleBits == {0, 1, WordBits - 1}
WordShl(w, k) == {b + k : b \in {x \in w : x + k < WordBits}}
WordShr(w, k) == {b - k : b \in {x \in w : x >= k}}
\* "Shift words": result[i] = result[i - word_shift] for i from
\* ResultSize - 1 down to word_shift, then zeroes below word_shift
ShiftWords(r, Size, word_shift) ==
    [i \in 1 .. Size |-> IF i - 1 >= word_shift THEN r[i - word_shift] ELSE {}]
RECURSIVE ShiftBits(_, _, _, _, _)
\* "Shift bits": from word i upwards, with the carry of the word below
ShiftBits(r, Size, i, bit_shift, carry) ==
    IF i >= Size THEN r
    ELSE LET new_carry == WordShr(r[i + 1], WordBits - bit_shift)
         IN ShiftBits([r EXCEPT ![i + 1] = WordShl(@, bit_shift) \cup carry],
                      Size, i + 1, bit_shift, new_carry)
\* operator<< where its loops stay inside the array
ShiftLeft(value, Size, shift) ==
    LET word_shift == shift \div WordBits
        bit_shift == shift % WordBits
        moved == ShiftWords(value, Size, word_shift)
    IN IF word_shift >= Size THEN [i \in 1 .. Size |-> {}]
       ELSE IF bit_shift > 0 THEN ShiftBits(moved, Size, word_shift, bit_shift, {})
       ELSE moved
\* the bit positions of a LargeInteger, counted from bit 0 of m_data[0]
BitsOf(value) == UNION {{(i - 1) * WordBits + b : b \in value[i]} : i \in DOMAIN value}
LargeIntegerInit ==
    /\ cfg = [W |-> 1, H |-> 1, V |-> 1, rules |-> <<NoRule, NoRule>>,
              callbacks |-> {}, world0 |-> [i \in 0 .. 0 |-> 0],
              seed |-> 0, iterations0 |-> 0, initial |-> "none",
              table |-> "functions", matrix |-> NoMatrix]
    /\ world = cfg.world0
    /\ waves = <<>>
    /\ frames = <<>>
    /\ queue = NewQueue(NumCells)
    /\ arena = NewArena(DefaultPoolSize)
    /\ selector = SeedOf(0)
    /\ iterations = 0
    /\ pc = "start"
    /\ calls = <<>>
    /\ retval = FALSE
    /\ build = "any"
    /\ fired = "none"
    /\ \E Size \in 1 .. MaxWords :
          \E value \in [1 .. Size -> SUBSET WordSampleBits], shift \in 0 .. (WordBits * Size) :
             last = [size |-> Size, value |-> value, shift |-> shift, result |-> value]
    /\ picked = NoPick
    /\ blocks = <<>>
    /\ counts = NoCounts
LargeIntegerUnchanged ==
    UNCHANGED <<cfg, world, waves, frames, queue, arena, selector, iterations,
                calls, retval, fired, picked, counts, blocks>>
\* operator<<(shift) with shift >= 64: the word loop ends at word_shift >= 1
ShiftLeftCall ==
    /\ pc = "start"
    /\ last.shift \div WordBits >= 1
    /\ last' = [last EXCEPT !.result = ShiftLeft(last.value, last.size, last.shift)]
    /\ pc' = "returned"
    /\ build' = build
    /\ LargeIntegerUnchanged
\* operator<<(shift) with shift < 64: word_shift is 0, the condition
\* i >= word_shift of the word loop holds for every size_t, and after i = 0
\* the loop indexes m_data at 2^64 - 1 and below.  The behaviour is
\* undefined: the walk through memory faults or goes on, or the build has
\* dropped the loop of self-assignments and the bit loop runs as written.
ShiftLeftUndefined ==
    /\ pc = "start"
    /\ last.shift \div WordBits = 0
    /\ \/ /\ pc' = "crashed"
          /\ last' = last
       \/ /\ pc' = "running"
          /\ last' = last
       \/ /\ pc' = "returned"
          /\ last' = [last EXCEPT !.result = ShiftLeft(last.value, last.size, last.shift)]
    /\ build' = "undefined"
    /\ LargeIntegerUnchanged
LargeIntegerNext ==
    \/ ShiftLeftCall
    \/ ShiftLeftUndefined
LargeIntegerSpec == LargeIntegerInit /\ [][LargeIntegerNext]_vars

\* value * 2^shift modulo 2^(64 x Size), as bit positions
ShiftedBits(value, Size, shift) ==
    {b + shift : b \in {x \in BitsOf(value) : x + shift < WordBits * Size}}

\* C40: left-shifting a LargeInteger<Size> by s bits, for every
\* 0 <= s < 64 x Size, terminates and yields the value times 2^s modulo
\* 2^(64 x Size).
C40_ShiftLeftMultiplies ==
    (pc # "start" /\ last.shift < WordBits * last.size) =>
       /\ pc = "returned"
       /\ BitsOf(last.result) = ShiftedBits(last.value, last.size, last.shift)
\* the same for the shifts of at least one whole word
C40_ShiftLeftMultipliesFromOneWord ==
    (pc # "start" /\ last.shift >= WordBits) =>
       /\ pc = "returned"
       /\ BitsOf(last.result) = ShiftedBits(last.value, last.size, last.shift)

====
